---- MODULE Spec2Model ----
(***************************************************************************)
(* A model of the KE-ROUMA backend's multi-provider AI generation service  *)
(* (services/multi_ai_service.py): the provider ordering policy, the       *)
(* recipe and chat fallback drivers, the response parser, the built-in     *)
(* recipe generator and the process-wide provider-status map.              *)
(*                                                                         *)
(* Python strings that the code inspects (lower(), substring tests, enum   *)
(* lookup) are sequences of one-character strings.  Strings the code only  *)
(* passes through are TLA+ strings.                                        *)
(***************************************************************************)
EXTENDS Integers, Sequences, FiniteSets, TLC

VARIABLES
    _provider_status,    \* MultiAIService._provider_status: AIProvider -> AIProviderStatus
    op,                  \* the service call in progress: "none", "generate_recipes", "generate_chat_response"
    pc,                  \* its position: "idle", "loop", "await", "done", "raised"
    pantry_ingredients,  \* argument of generate_recipes
    is_premium,          \* argument of generate_recipes
    provider_order,      \* local of both drivers
    idx,                 \* position of the for loop in provider_order (1-based)
    in_flight,           \* providers whose call has been started and has not finished
    generation_info,     \* local of generate_recipes
    providers_tried,     \* local of generate_chat_response
    result,              \* what the call returned (recipes or chat dict), None before
    raised,              \* message of the exception the call raised, None if it did not
    attempts,            \* history: the provider-call events of the call in progress
    o_preferred,         \* ordering policy applied alone: its preferred_provider argument
    o_default,           \* ordering policy applied alone: the DEFAULT_AI_PROVIDER setting
    o_order,             \* ordering policy applied alone: the order returned, None before
    args,                \* a function applied alone: its arguments, None of a dict when unused
    returned,            \* a function applied alone: what it returned, None of a dict before
    calls,               \* service calls running concurrently: call id -> the call's own locals
    last_outcome,        \* history: provider -> outcome of the attempt or probe that completed last
    fallback_order,      \* MultiAIService._fallback_order as the process holds it
    rate_limit_storage,  \* middleware/security.py rate_limit_storage: client IP -> the timestamps kept
    clock,               \* what datetime.now() gives, in ticks
    forwarded,           \* history: client IP -> the times of the requests handed to call_next
    response,            \* the answer to the last request: its client, status code and whether it was forwarded
    cache,               \* CacheService.cache: key -> entry (value, expires_at)
    utcnow,              \* what datetime.utcnow() gives, in ticks
    written,             \* history: key -> the entry of the last set, until a delete or clear of the key
    cache_returned,      \* the last cache operation: its name, key and what it returned
    users,               \* db.users: user id -> the stored document
    payments,            \* db.payments: the stored documents, in insertion order
    password_resets,     \* db.password_resets: the stored documents, in insertion order
    handlers,            \* route handlers under way: handler id -> its position and locals
    reply                \* the answer to the last request that ended: route, status code and body

svc_vars == <<_provider_status, op, pc, pantry_ingredients, is_premium, provider_order,
              idx, in_flight, generation_info, providers_tried, result, raised, attempts>>
ord_vars == <<o_preferred, o_default, o_order>>
fn_vars == <<args, returned>>
conc_vars == <<calls, last_outcome>>
frame_vars == <<fallback_order>>
rate_vars == <<rate_limit_storage, clock, forwarded, response>>
cache_vars == <<cache, written, cache_returned>>
time_vars == <<utcnow>>
db_vars == <<users, payments, password_resets, handlers, reply>>
ext_vars == <<conc_vars, frame_vars, rate_vars, cache_vars, time_vars, db_vars>>
not_conc == <<frame_vars, rate_vars, cache_vars, time_vars, db_vars>>
not_rate == <<svc_vars, ord_vars, fn_vars, conc_vars, frame_vars, cache_vars, time_vars, db_vars>>
not_cache == <<svc_vars, ord_vars, fn_vars, conc_vars, frame_vars, rate_vars, db_vars>>
not_db == <<svc_vars, ord_vars, fn_vars, conc_vars, frame_vars, rate_vars, cache_vars>>
vars == <<svc_vars, ord_vars, fn_vars, ext_vars>>

-----------------------------------------------------------------------------
(* Python strings as sequences of characters *)

None == <<"NoneType">>

Str_gemini == <<"g", "e", "m", "i", "n", "i">>
Str_openai == <<"o", "p", "e", "n", "a", "i">>
Str_huggingface == <<"h", "u", "g", "g", "i", "n", "g", "f", "a", "c", "e">>
Str_cohere == <<"c", "o", "h", "e", "r", "e">>
Str_mock == <<"m", "o", "c", "k">>
Str_GEMINI == <<"G", "E", "M", "I", "N", "I">>
Str_OpenAI == <<"O", "p", "e", "n", "A", "I">>
Str_HuggingFace == <<"H", "u", "g", "g", "i", "n", "g", "F", "a", "c", "e">>
Str_COHERE == <<"C", "O", "H", "E", "R", "E">>
Str_Mock == <<"M", "o", "c", "k">>
Str_auto == <<"a", "u", "t", "o">>
Str_llama == <<"l", "l", "a", "m", "a">>
Str_cohere_sp == <<"c", "o", "h", "e", "r", "e", " ">>
Str_empty == <<>>

Upper == <<"A", "B", "C", "D", "E", "F", "G", "H", "I", "J", "K", "L", "M",
          "N", "O", "P", "Q", "R", "S", "T", "U", "V", "W", "X", "Y", "Z">>
Lower == <<"a", "b", "c", "d", "e", "f", "g", "h", "i", "j", "k", "l", "m",
          "n", "o", "p", "q", "r", "s", "t", "u", "v", "w", "x", "y", "z">>

UpperToLower ==
    [c \in {Upper[i] : i \in 1..Len(Upper)} |->
        Lower[CHOOSE i \in 1..Len(Upper) : Upper[i] = c]]

\* str.lower()
lower(s) == [i \in 1..Len(s) |-> IF s[i] \in DOMAIN UpperToLower THEN UpperToLower[s[i]] ELSE s[i]]

\* `sub in s` for strings
Contains(s, sub) ==
    \E i \in 0..(Len(s) - Len(sub)) : \A j \in 1..Len(sub) : s[i + j] = sub[j]

\* truth value of an Optional[str]
Truthy(s) == s # None /\ s # Str_empty

-----------------------------------------------------------------------------
(* class AIProvider(Enum) *)

AIProvider == {"OPENAI", "GEMINI", "HUGGINGFACE", "COHERE", "MOCK"}

\* provider.value
value(p) ==
    CASE p = "OPENAI" -> Str_openai
      [] p = "GEMINI" -> Str_gemini
      [] p = "HUGGINGFACE" -> Str_huggingface
      [] p = "COHERE" -> Str_cohere
      [] p = "MOCK" -> Str_mock

\* AIProvider(v) succeeds: v is the value of a member
IsProviderValue(v) == \E p \in AIProvider : value(p) = v

\* AIProvider(v), the member whose value is v
AIProviderOf(v) == CHOOSE p \in AIProvider : value(p) = v

External == AIProvider \ {"MOCK"}

_fallback_order == <<"GEMINI", "OPENAI", "HUGGINGFACE", "COHERE", "MOCK">>

-----------------------------------------------------------------------------
(* MultiAIService._get_provider_order *)

\* a faulty variant: the built-in generator is filtered out with the chosen provider
Others_nomock(first) == SelectSeq(_fallback_order, LAMBDA p : p # first /\ p # "MOCK")

\* [p for p in MultiAIService._fallback_order if p != first]
Others(first) == SelectSeq(_fallback_order, LAMBDA p : p # first)

\* a faulty variant: the chosen provider is put first and left in its canonical place too
_get_provider_order_dup(preferred_provider, default_provider) ==
    IF Truthy(preferred_provider) /\ IsProviderValue(lower(preferred_provider))
    THEN <<AIProviderOf(lower(preferred_provider))>> \o _fallback_order
    ELSE IF IsProviderValue(lower(default_provider))
         THEN <<AIProviderOf(lower(default_provider))>> \o _fallback_order
         ELSE _fallback_order

\* a faulty variant: the preferred token is looked up as given, without lower()
_get_provider_order_cased(preferred_provider, default_provider) ==
    IF Truthy(preferred_provider) /\ IsProviderValue(preferred_provider)
    THEN <<AIProviderOf(preferred_provider)>> \o Others(AIProviderOf(preferred_provider))
    ELSE IF IsProviderValue(lower(default_provider))
         THEN <<AIProviderOf(lower(default_provider))>>
              \o Others(AIProviderOf(lower(default_provider)))
         ELSE _fallback_order

\* default_provider is what os.getenv("DEFAULT_AI_PROVIDER", "gemini") returned
_get_provider_order(preferred_provider, default_provider) ==
    IF Truthy(preferred_provider) /\ IsProviderValue(lower(preferred_provider))
    THEN <<AIProviderOf(lower(preferred_provider))>>
         \o Others(AIProviderOf(lower(preferred_provider)))
    ELSE IF IsProviderValue(lower(default_provider))
         THEN <<AIProviderOf(lower(default_provider))>>
              \o Others(AIProviderOf(lower(default_provider)))
         ELSE _fallback_order

\* os.getenv("DEFAULT_AI_PROVIDER", "gemini"): None stands for an unset variable
getenv_default(setting) == IF setting = None THEN Str_gemini ELSE setting

\* preferred_provider arguments: absent, empty, every provider in two casings, unknown names
PreferredTokens ==
    {None, Str_empty, Str_auto, Str_llama, Str_cohere_sp,
     Str_gemini, Str_openai, Str_huggingface, Str_cohere, Str_mock,
     Str_GEMINI, Str_OpenAI, Str_HuggingFace, Str_COHERE, Str_Mock}

\* DEFAULT_AI_PROVIDER settings: unset, empty, known in either casing, unknown
DefaultSettings ==
    {None, Str_empty, Str_llama, Str_gemini, Str_OpenAI, Str_huggingface, Str_COHERE, Str_Mock}

-----------------------------------------------------------------------------
(* Recipes.  A text is a sequence of parts (an f-string is the sequence of  *)
(* its literal and interpolated parts); a list is a sequence of texts; a    *)
(* dict is a record and NoneDict is the None of an Optional[dict].          *)

NoneDict == [NoneType |-> TRUE]

Min(a, b) == IF a < b THEN a ELSE b

\* xs[:n]
Take(xs, n) == SubSeq(xs, 1, Min(n, Len(xs)))

\* [f"{prefix}{x}" for x in xs]
Prefixed(prefix, xs) == [i \in 1..Len(xs) |-> <<prefix, xs[i]>>]

\* a faulty variant: the built-in generator returns no recipe
_generate_mock_recipes_none(ingredients, premium) == <<>>

\* a faulty variant: one recipe built from the caller's ingredients alone
_generate_mock_recipes_bare(ingredients, premium) ==
    << [name |-> <<"Jollof Rice with ",
                   IF ingredients # <<>> THEN ingredients[1] ELSE "Vegetables">>,
        origin |-> <<"West Africa">>,
        ingredients |-> Prefixed("1 cup ", Take(ingredients, 3)),
        instructions |-> <<>>,
        cooking_time |-> <<"45 minutes">>,
        health_benefits |-> <<>>,
        cultural_context |-> <<>>,
        nutrition_info |-> NoneDict,
        tags |-> <<>>] >>

\* MultiAIService._generate_mock_recipes (health_goals is not read by it)
_generate_mock_recipes(ingredients, premium) ==
    << [name |-> <<"Jollof Rice with ",
                   IF ingredients # <<>> THEN ingredients[1] ELSE "Vegetables">>,
        origin |-> <<"West Africa">>,
        ingredients |-> << <<"2 cups jasmine rice">>, <<"1 can diced tomatoes">>,
                           <<"1 large onion, diced">>, <<"3 cloves garlic, minced">> >>
                        \o Prefixed("1 cup ", Take(ingredients, 3)),
        instructions |-> << <<"Heat oil in a large pot over medium heat">>,
                            <<"Saute onions until golden brown">>,
                            <<"Add garlic and cook for 1 minute">>,
                            <<"Add tomatoes and selected ingredients">>,
                            <<"Add rice and stock, bring to boil">>,
                            <<"Reduce heat, cover and simmer for 20-25 minutes">>,
                            <<"Let stand 5 minutes before serving">> >>,
        cooking_time |-> <<"45 minutes">>,
        health_benefits |-> <<"Rich in complex carbohydrates, provides sustained energy, contains antioxidants from tomatoes">>,
        cultural_context |-> <<"Jollof rice is a beloved West African dish, often served at celebrations and family gatherings">>,
        nutrition_info |-> IF premium
                           THEN [calories |-> 420, protein |-> "12g", fiber |-> "8g",
                                 vitamin_c |-> "25mg"]
                           ELSE NoneDict,
        tags |-> <<"west-african", "rice", "one-pot">>],
       [name |-> <<"Ethiopian Spiced Lentils with ",
                   IF Len(ingredients) > 1 THEN ingredients[2] ELSE "Herbs">>,
        origin |-> <<"Ethiopia">>,
        ingredients |-> << <<"1 cup red lentils">>, <<"2 tbsp berbere spice blend">>,
                           <<"1 large onion, chopped">>, <<"3 cloves garlic, minced">> >>
                        \o Prefixed("1/2 cup ", Take(ingredients, 2)),
        instructions |-> << <<"Rinse lentils and set aside">>,
                            <<"Saute onions until soft and golden">>,
                            <<"Add garlic and berbere spice, cook 1 minute">>,
                            <<"Add selected ingredients and lentils">>,
                            <<"Add 3 cups water, bring to boil">>,
                            <<"Simmer 20-25 minutes until lentils are tender">>,
                            <<"Season with salt and serve hot">> >>,
        cooking_time |-> <<"35 minutes">>,
        health_benefits |-> <<"High in plant protein and fiber, supports digestive health, rich in iron and folate">>,
        cultural_context |-> <<"Misir wot is a staple Ethiopian dish, traditionally served with injera bread">>,
        nutrition_info |-> IF premium
                           THEN [calories |-> 280, protein |-> "18g", fiber |-> "12g",
                                 iron |-> "6mg"]
                           ELSE NoneDict,
        tags |-> <<"ethiopian", "lentils", "spicy", "vegetarian">>],
       [name |-> <<"Kenyan Sukuma Wiki with ",
                   IF ingredients # <<>> THEN ingredients[1] ELSE "Onions">>,
        origin |-> <<"Kenya">>,
        ingredients |-> << <<"1 bunch collard greens (sukuma wiki)">>,
                           <<"2 medium tomatoes, chopped">>,
                           <<"1 large onion, sliced">>, <<"2 cloves garlic, minced">> >>
                        \o Prefixed("1/2 cup ", Take(ingredients, 2)),
        instructions |-> << <<"Wash and chop collard greens into strips">>,
                            <<"Heat oil in a large pan">>,
                            <<"Saute onions until translucent">>,
                            <<"Add garlic and selected ingredients">>,
                            <<"Add tomatoes, cook until soft">>,
                            <<"Add collard greens, stir well">>,
                            <<"Cover and cook 10-15 minutes until tender">> >>,
        cooking_time |-> <<"25 minutes">>,
        health_benefits |-> <<"Excellent source of vitamins A, C, and K, supports immune system and bone health">>,
        cultural_context |-> <<"Sukuma wiki means 'push the week' in Swahili, a nutritious and affordable daily meal">>,
        nutrition_info |-> IF premium
                           THEN [calories |-> 150, protein |-> "8g", fiber |-> "6g",
                                 vitamin_a |-> "200% DV"]
                           ELSE NoneDict,
        tags |-> <<"kenyan", "greens", "healthy", "quick">>] >>

-----------------------------------------------------------------------------------------------------------------------------------------------------
(* Provider response texts.  A response text is a sequence of lines: the   *)
(* "---" delimiter, a blank line, or a line "Label: value".  The value of  *)
(* a line is a sequence of items, which the line separates with dashes, or *)
(* a sequence of numeric facts ("350 calories", "20g protein"); it is not  *)
(* empty and holds no label, no newline and no numbered step.              *)

Delim == [kind |-> "delim", label |-> "", val |-> <<>>, facts |-> <<>>]
Blank == [kind |-> "blank", label |-> "", val |-> <<>>, facts |-> <<>>]
Line(l, v) == [kind |-> "line", label |-> l, val |-> v, facts |-> <<>>]
NutritionLine(f) == [kind |-> "line", label |-> "Nutrition Info", val |-> <<>>, facts |-> f]
Fact(n, u, w) == [n |-> n, unit |-> u, word |-> w]

RECURSIVE split(_)
\* response_text.split("---")
split(text) ==
    IF \E i \in 1..Len(text) : text[i] = Delim
    THEN LET i == CHOOSE k \in 1..Len(text) :
                      text[k] = Delim /\ \A j \in 1..(k - 1) : text[j] # Delim
         IN  <<SubSeq(text, 1, i - 1)>> \o split(SubSeq(text, i + 1, Len(text)))
    ELSE <<text>>

\* section.strip()
strip(section) ==
    IF \A i \in 1..Len(section) : section[i] = Blank
    THEN <<>>
    ELSE LET a == CHOOSE k \in 1..Len(section) :
                      section[k] # Blank /\ \A j \in 1..(k - 1) : section[j] = Blank
             b == CHOOSE k \in 1..Len(section) :
                      section[k] # Blank /\ \A j \in (k + 1)..Len(section) : section[j] = Blank
         IN  SubSeq(section, a, b)

\* the trailing blank lines that the .strip() of a matched group removes
rstrip(lines) ==
    IF \A i \in 1..Len(lines) : lines[i] = Blank
    THEN <<>>
    ELSE LET b == CHOOSE k \in 1..Len(lines) :
                      lines[k] # Blank /\ \A j \in (k + 1)..Len(lines) : lines[j] = Blank
         IN  SubSeq(lines, 1, b)

RECURSIVE Join(_, _)
\* the parts of sep.join(xs)
Join(xs, sep) ==
    IF Len(xs) <= 1 THEN xs ELSE <<xs[1], sep>> \o Join(Tail(xs), sep)

RECURSIVE FactsText(_)
\* the characters of the facts of a line: "350 calories, 20g protein"
FactsText(facts) ==
    IF facts = <<>> THEN <<>>
    ELSE <<ToString(facts[1].n), facts[1].unit, " ", facts[1].word>>
         \o (IF Len(facts) > 1 THEN <<", ">> ELSE <<>>) \o FactsText(Tail(facts))

\* the characters of a line after its "Label:" and the white space that follows
RestOfLine(ln) == IF ln.facts # <<>> THEN FactsText(ln.facts) ELSE Join(ln.val, " - ")

\* the characters of a whole line
WholeLine(ln) == IF ln = Blank THEN <<>> ELSE <<ln.label, ": ">> \o RestOfLine(ln)

\* re.search of a label: the index of the first line carrying one of the labels, 0
\* when there is none
Search(recipe_text, labels) ==
    IF \E i \in 1..Len(recipe_text) : recipe_text[i].label \in labels
    THEN CHOOSE i \in 1..Len(recipe_text) :
             /\ recipe_text[i].label \in labels
             /\ \A j \in 1..(i - 1) : recipe_text[j].label \notin labels
    ELSE 0

\* (.*?)(?=<stops>|$) under re.DOTALL: the lines the group takes after the line it
\* starts on, up to the first later line carrying a label of the lookahead or to the
\* end of the text
Swallowed(recipe_text, i, stops) ==
    LET later == {j \in (i + 1)..Len(recipe_text) : recipe_text[j].label \in stops}
        j == IF later = {} THEN Len(recipe_text) + 1
             ELSE CHOOSE k \in later : \A m \in later : k <= m
    IN  rstrip(SubSeq(recipe_text, i + 1, j - 1))

RECURSIVE LinesText(_)
\* the characters of lines that follow a first line, newlines included
LinesText(lines) ==
    IF lines = <<>> THEN <<>>
    ELSE <<"\n">> \o WholeLine(lines[1]) \o LinesText(Tail(lines))

\* match.group(1).strip() of a text field matched under re.DOTALL
TextGroup(recipe_text, i, stops) ==
    RestOfLine(recipe_text[i]) \o LinesText(Swallowed(recipe_text, i, stops))

RECURSIVE LinesItems(_)
\* re.split(r'[-\n]', ...) on whole lines, white-space items dropped
LinesItems(lines) ==
    IF lines = <<>> THEN <<>>
    ELSE (IF lines[1] = Blank THEN <<>>
          ELSE IF lines[1].facts # <<>> \/ lines[1].val = <<>>
               THEN << WholeLine(lines[1]) >>
               ELSE << <<lines[1].label, ": ", lines[1].val[1]>> >>
                    \o [k \in 1..(Len(lines[1].val) - 1) |-> <<lines[1].val[k + 1]>>])
         \o LinesItems(Tail(lines))

\* [item.strip() for item in re.split(...) if item.strip()] of a list field
ListGroup(recipe_text, i, stops) ==
    (IF recipe_text[i].facts # <<>>
     THEN << FactsText(recipe_text[i].facts) >>
     ELSE [k \in 1..Len(recipe_text[i].val) |-> <<recipe_text[i].val[k]>>])
    \o LinesItems(Swallowed(recipe_text, i, stops))

RECURSIVE AllFacts(_)
\* the numeric facts in the lines of a text
AllFacts(lines) ==
    IF lines = <<>> THEN <<>> ELSE lines[1].facts \o AllFacts(Tail(lines))

\* MultiAIService._parse_nutrition
_parse_nutrition(facts) ==
    LET cal == SelectSeq(facts, LAMBDA f : f.word \in {"calorie", "calories"})
        pro == SelectSeq(facts, LAMBDA f : f.word = "protein" /\ f.unit \in {"", "g"})
        fib == SelectSeq(facts, LAMBDA f : f.word = "fiber" /\ f.unit \in {"", "g"})
        keys == (IF cal # <<>> THEN {"calories"} ELSE {})
                \cup (IF pro # <<>> THEN {"protein"} ELSE {})
                \cup (IF fib # <<>> THEN {"fiber"} ELSE {})
    IN  [k \in keys |->
            CASE k = "calories" -> cal[1].n
              [] k = "protein" -> <<pro[1].n, "g">>
              [] k = "fiber" -> <<fib[1].n, "g">>]

\* MultiAIService._extract_recipe_data.  The Cooking Time pattern is compiled without
\* re.DOTALL and its lookahead is "Nutrition Info:" or the end of the text: it matches
\* only on the last line of the text.
_extract_recipe_data(recipe_text, premium) ==
    LET name_match == Search(recipe_text, {"Recipe Name", "Name"})
        origin_match == Search(recipe_text, {"Origin"})
        ingredients_match == Search(recipe_text, {"Ingredients", "Ingredient"})
        instructions_match == Search(recipe_text, {"Instructions", "Instruction"})
        health_match == Search(recipe_text, {"Health Benefits", "Health Benefit"})
        culture_match == Search(recipe_text, {"Cultural Context"})
        time_match == IF recipe_text[Len(recipe_text)].label = "Cooking Time"
                      THEN Len(recipe_text) ELSE 0
        nutrition_match == Search(recipe_text, {"Nutrition Info"})
    IN  [name |-> IF name_match # 0 THEN RestOfLine(recipe_text[name_match])
                  ELSE <<"African Recipe">>,
         origin |-> IF origin_match # 0 THEN RestOfLine(recipe_text[origin_match])
                    ELSE <<"Africa">>,
         ingredients |-> IF ingredients_match # 0
                         THEN ListGroup(recipe_text, ingredients_match,
                                  {"Instructions", "Instruction", "Health Benefits"})
                         ELSE <<>>,
         instructions |-> IF instructions_match # 0
                          THEN ListGroup(recipe_text, instructions_match,
                                   {"Health Benefits", "Cultural Context", "Cooking Time"})
                          ELSE <<>>,
         health_benefits |-> IF health_match # 0
                             THEN TextGroup(recipe_text, health_match,
                                      {"Cultural Context", "Cooking Time", "Nutrition Info"})
                             ELSE <<"Nutritious and delicious">>,
         cultural_context |-> IF culture_match # 0
                              THEN TextGroup(recipe_text, culture_match,
                                       {"Cooking Time", "Nutrition Info"})
                              ELSE <<"Traditional African cuisine">>,
         cooking_time |-> IF time_match # 0 THEN RestOfLine(recipe_text[time_match])
                          ELSE <<"30 minutes">>,
         nutrition_info |-> IF premium /\ nutrition_match # 0
                            THEN _parse_nutrition(AllFacts(
                                     SubSeq(recipe_text, nutrition_match, Len(recipe_text))))
                            ELSE NoneDict,
         tags |-> <<>>]

RECURSIVE ParseSections(_, _)
\* the loop of _parse_recipe_response over the sections it looks at
ParseSections(sections, premium) ==
    IF sections = <<>> THEN <<>>
    ELSE IF strip(sections[1]) = <<>>
         THEN ParseSections(Tail(sections), premium)
         ELSE <<_extract_recipe_data(strip(sections[1]), premium)>>
              \o ParseSections(Tail(sections), premium)

\* the number of recipes the loop of _parse_recipe_response draws from a text
Parsed(response_text, premium) ==
    Len(ParseSections(Take(split(response_text), 3), premium))

\* MultiAIService._parse_recipe_response
_parse_recipe_response(response_text, premium) ==
    LET recipes == ParseSections(Take(split(response_text), 3), premium)
    IN  IF recipes = <<>>
        THEN _generate_mock_recipes(<<"rice", "tomatoes">>, premium)
        ELSE recipes

\* what an external provider may answer when a driver calls it
ResponseTexts ==
    { <<>>,
      <<Line("Recipe Name", <<"Ugali">>), Line("Ingredients", <<"maize flour", "water">>),
        NutritionLine(<<Fact(350, "", "calories"), Fact(20, "g", "protein")>>)>> }

-----------------------------------------------------------------------------
(* Provider calls *)

Str_OpenAIKeyMsg == <<"O", "p", "e", "n", "A", "I", " ", "A", "P", "I", " ", "k", "e", "y", " ", "n", "o", "t", " ", "c", "o", "n", "f", "i", "g", "u", "r", "e", "d">>
Str_GeminiKeyMsg == <<"G", "e", "m", "i", "n", "i", " ", "A", "P", "I", " ", "k", "e", "y", " ", "n", "o", "t", " ", "c", "o", "n", "f", "i", "g", "u", "r", "e", "d">>
Str_HuggingFaceKeyMsg == <<"H", "u", "g", "g", "i", "n", "g", " ", "F", "a", "c", "e", " ", "A", "P", "I", " ", "k", "e", "y", " ", "n", "o", "t", " ", "c", "o", "n", "f", "i", "g", "u", "r", "e", "d">>
Str_CohereKeyMsg == <<"C", "o", "h", "e", "r", "e", " ", "A", "P", "I", " ", "k", "e", "y", " ", "n", "o", "t", " ", "c", "o", "n", "f", "i", "g", "u", "r", "e", "d">>
Str_QuotaMsg == <<"Q", "u", "o", "t", "a", " ", "e", "x", "c", "e", "e", "d", "e", "d">>
Str_quota == <<"q", "u", "o", "t", "a">>
Str_429 == <<"4", "2", "9">>
Str_EmptyIngredientsMsg == <<"A", "t", " ", "l", "e", "a", "s", "t", " ", "o", "n", "e", " ", "p", "a", "n", "t", "r", "y", " ", "i", "n", "g", "r", "e", "d", "i", "e", "n", "t", " ", "i", "s", " ", "r", "e", "q", "u", "i", "r", "e", "d">>
Str_AllFailedMsg == <<"A", "l", "l", " ", "A", "I", " ", "p", "r", "o", "v", "i", "d", "e", "r", "s", " ", "f", "a", "i", "l", "e", "d", " ", "t", "o", " ", "g", "e", "n", "e", "r", "a", "t", "e", " ", "r", "e", "c", "i", "p", "e", "s">>

\* the exception an external provider's wrapper raises when its API key is not set
KeyNotConfigured(p) ==
    CASE p = "OPENAI" -> Str_OpenAIKeyMsg
      [] p = "GEMINI" -> Str_GeminiKeyMsg
      [] p = "HUGGINGFACE" -> Str_HuggingFaceKeyMsg
      [] p = "COHERE" -> Str_CohereKeyMsg

\* str(e) of the exceptions a provider's client library raises
UpstreamErrors == {Str_QuotaMsg}

\* the outcomes of a provider call; parsed is the number of recipes the parser drew
\* from the provider's text, -1 when no text was parsed
Raise(msg) ==
    [raises |-> TRUE, error |-> msg, recipes |-> <<>>, response |-> <<>>, parsed |-> -1]
ReturnRecipes(r) ==
    [raises |-> FALSE, error |-> None, recipes |-> r, response |-> <<>>, parsed |-> -1]
ReturnParsed(text, premium) ==
    [raises |-> FALSE, error |-> None, recipes |-> _parse_recipe_response(text, premium),
     response |-> <<>>, parsed |-> Parsed(text, premium)]
ReturnText(s) ==
    [raises |-> FALSE, error |-> None, recipes |-> <<>>, response |-> s, parsed |-> -1]

Str_UnknownProviderMsg == <<"U", "n", "k", "n", "o", "w", "n", " ", "p", "r", "o", "v", "i", "d", "e", "r", ":", " ", "A", "I", "P", "r", "o", "v", "i", "d", "e", "r", ".", "M", "O", "C", "K">>

\* the returns of the external providers on the texts they may be answered, for either
\* tier
ExternalReturns ==
    {[premium |-> b, out |-> ReturnParsed(text, b)] : text \in ResponseTexts, b \in BOOLEAN}

\* a faulty variant: the MOCK branch is missing and the final else raises
_generate_with_provider_nomock(provider, ingredients, premium) ==
    IF provider = "MOCK"
    THEN {Raise(Str_UnknownProviderMsg)}
    ELSE {Raise(KeyNotConfigured(provider))}
         \cup {Raise(e) : e \in UpstreamErrors}
         \cup {r.out : r \in {x \in ExternalReturns : x.premium = premium}}

\* MultiAIService._generate_with_provider and the four _generate_with_<provider>:
\* the outcomes of one call (health_goals only shapes the prompt sent upstream)
_generate_with_provider(provider, ingredients, premium) ==
    IF provider = "MOCK"
    THEN {ReturnRecipes(_generate_mock_recipes(ingredients, premium))}
    ELSE {Raise(KeyNotConfigured(provider))}
         \cup {Raise(e) : e \in UpstreamErrors}
         \cup {r.out : r \in {x \in ExternalReturns : x.premium = premium}}

\* MultiAIService._generate_mock_chat: random.choice(responses)
_generate_mock_chat ==
    { <<"That's a great question about African cuisine! I'd recommend trying jollof rice - it's a beloved West African dish that's both flavorful and nutritious.">>,
      <<"For authentic African cooking, I suggest exploring traditional spices like berbere from Ethiopia or harissa from North Africa. They add incredible depth to dishes!">>,
      <<"Have you tried making ugali? It's a staple food in East Africa that pairs wonderfully with stews and vegetables.">>,
      <<"African cuisine offers so many healthy options! Consider dishes with leafy greens like sukuma wiki or moringa leaves - they're packed with nutrients.">>,
      <<"For a quick African-inspired meal, try making a simple groundnut stew with peanut butter, vegetables, and your choice of protein.">>,
      <<"Traditional African fermented foods like injera bread or fermented porridge are great for gut health and have unique flavors!">> }

\* text.strip() on a text given as parts, " " being a run of whitespace
strip_text(s) ==
    IF \A i \in 1..Len(s) : s[i] = " "
    THEN <<>>
    ELSE LET a == CHOOSE k \in 1..Len(s) : s[k] # " " /\ \A j \in 1..(k - 1) : s[j] = " "
             b == CHOOSE k \in 1..Len(s) : s[k] # " " /\ \A j \in (k + 1)..Len(s) : s[j] = " "
         IN  SubSeq(s, a, b)

\* what an external provider may answer to a chat prompt
ChatTexts == { <<>>, <<" ">>, <<" ", "Try ugali with sukuma wiki.", " ">> }

\* the branch of generate_chat_response for one provider and the _generate_<provider>_chat it calls
_generate_chat(provider) ==
    IF provider = "MOCK"
    THEN {ReturnText(m) : m \in _generate_mock_chat}
    ELSE {Raise(KeyNotConfigured(provider))}
         \cup {Raise(e) : e \in UpstreamErrors}
         \cup {ReturnText(strip_text(text)) : text \in ChatTexts}

-----------------------------------------------------------------------------
(* Provider status tracking *)

\* AIProviderStatus(provider, available, quota_remaining, error); last_checked, a wall-clock
\* reading, is left out
AIProviderStatus(provider, available, quota_remaining, error) ==
    [provider |-> provider, available |-> available,
     quota_remaining |-> quota_remaining, error |-> error]

\* d with d[k] = v
Put(d, k, v) == [x \in (DOMAIN d) \cup {k} |-> IF x = k THEN v ELSE d[x]]

\* a faulty variant: the record is kept when there is one already (setdefault instead of assignment)
_update_provider_status_keep(status, provider, success, error) ==
    IF provider \in DOMAIN status THEN status
    ELSE Put(status, provider,
             AIProviderStatus(provider, success,
                 ~Contains(lower(IF error = None THEN Str_empty ELSE error), Str_quota),
                 error))

\* a faulty variant: the record of a success is not overwritten by a later failure
_update_provider_status_sticky(status, provider, success, error) ==
    IF provider \in DOMAIN status /\ status[provider].available /\ ~success
    THEN status
    ELSE Put(status, provider,
             AIProviderStatus(provider, success,
                 ~Contains(lower(IF error = None THEN Str_empty ELSE error), Str_quota),
                 error))

\* a faulty variant: the records of the other providers are dropped by the update
_update_provider_status_only(status, provider, success, error) ==
    [p \in {provider} |->
        AIProviderStatus(provider, success,
            ~Contains(lower(IF error = None THEN Str_empty ELSE error), Str_quota),
            error)]

\* MultiAIService._update_provider_status: the map after the call
_update_provider_status(status, provider, success, error) ==
    Put(status, provider,
        AIProviderStatus(provider, success,
            ~Contains(lower(IF error = None THEN Str_empty ELSE error), Str_quota),
            error))

-----------------------------------------------------------------------------
(* The drivers.  A call runs from "idle" through "loop" (the head of the    *)
(* for loop) and "await" (suspended in a provider call) to "done" (it       *)
(* returned) or "raised" (it raised); Return hands the outcome to the       *)
(* caller.                                                                  *)

NoResult == NoneDict

\* generate_recipes is called with a list of ingredient names
PantryInputs == { <<>>, <<"rice", "beans">> }

\* the for loop of both drivers moves on to the next provider
NextAttempt(i) == i + 1

\* a faulty variant: the return is missing and the loop goes on
AfterSuccess_continue == "loop"

\* where generate_recipes is after `return recipes, generation_info`
AfterSuccess == "done"

\* a faulty variant: compared with the head of the canonical sequence
FallbackUsed_canonical(provider, order) == provider # _fallback_order[1]

\* generation_info["fallback_used"] = provider != provider_order[0]
FallbackUsed(provider, order) == provider # order[1]

\* a faulty variant: len(providers_tried) > 0
ChatFallbackUsed_always(tried) == Len(tried) > 0

\* "fallback_used": len(providers_tried) > 1
ChatFallbackUsed(tried) == Len(tried) > 1

\* "quota_exceeded": "429" in error_msg or "quota" in error_msg.lower()
QuotaExceeded(error_msg) ==
    Contains(error_msg, Str_429) \/ Contains(lower(error_msg), Str_quota)

\* the generation service has not been called
CoreIdle ==
    /\ _provider_status = <<>>
    /\ op = "none"
    /\ pc = "idle"
    /\ pantry_ingredients = <<>>
    /\ is_premium = FALSE
    /\ provider_order = <<>>
    /\ idx = 0
    /\ in_flight = {}
    /\ generation_info = NoneDict
    /\ providers_tried = <<>>
    /\ result = NoResult
    /\ raised = None
    /\ attempts = <<>>
    /\ o_preferred = None
    /\ o_default = None
    /\ o_order = None
    /\ args = NoneDict
    /\ returned = NoneDict

\* no concurrent call has been made
ConcIdle ==
    /\ calls = <<>>
    /\ last_outcome = <<>>

\* the class attribute as the class body assigns it
FrameIdle == fallback_order = _fallback_order

\* middleware/security.py as imported: no request has been seen
RateIdle ==
    /\ rate_limit_storage = <<>>
    /\ clock = 0
    /\ forwarded = <<>>
    /\ response = NoneDict

\* CacheService.__init__: an empty cache
CacheIdle ==
    /\ cache = <<>>
    /\ written = <<>>
    /\ cache_returned = NoneDict

\* the clock at its start
TimeIdle == utcnow = 0

\* the database before any user, payment or reset code is stored
DbIdle ==
    /\ users = <<>>
    /\ payments = <<>>
    /\ password_resets = <<>>
    /\ handlers = <<>>
    /\ reply = NoneDict

NotConcIdle ==
    /\ FrameIdle
    /\ RateIdle
    /\ CacheIdle
    /\ TimeIdle
    /\ DbIdle

NotRateIdle ==
    /\ CoreIdle
    /\ ConcIdle
    /\ FrameIdle
    /\ CacheIdle
    /\ TimeIdle
    /\ DbIdle

NotCacheIdle ==
    /\ CoreIdle
    /\ ConcIdle
    /\ FrameIdle
    /\ RateIdle
    /\ DbIdle

NotDbIdle ==
    /\ CoreIdle
    /\ ConcIdle
    /\ FrameIdle
    /\ RateIdle
    /\ CacheIdle

ExtIdle ==
    /\ ConcIdle
    /\ FrameIdle
    /\ RateIdle
    /\ CacheIdle
    /\ TimeIdle
    /\ DbIdle

Init ==
    /\ _provider_status = <<>>
    /\ op = "none"
    /\ pc = "idle"
    /\ pantry_ingredients = <<>>
    /\ is_premium = FALSE
    /\ provider_order = <<>>
    /\ idx = 0
    /\ in_flight = {}
    /\ generation_info = NoneDict
    /\ providers_tried = <<>>
    /\ result = NoResult
    /\ raised = None
    /\ attempts = <<>>
    /\ o_preferred = None
    /\ o_default = None
    /\ o_order = None
    /\ args = NoneDict
    /\ returned = NoneDict
    /\ ExtIdle

\* a faulty variant: the check of the ingredient list is missing
Not_never(pantry) == FALSE

\* `not pantry_ingredients` for a list
Not(pantry) == pantry = <<>>

\* generate_recipes, from its entry to the head of the loop
CallGenerateRecipes ==
    /\ pc = "idle"
    /\ \E ingredients \in PantryInputs, premium \in BOOLEAN,
          preferred_provider \in PreferredTokens, setting \in DefaultSettings :
          /\ pantry_ingredients' = ingredients
          /\ is_premium' = premium
          /\ IF Not(ingredients)
             THEN /\ pc' = "raised"
                  /\ raised' = Str_EmptyIngredientsMsg
                  /\ provider_order' = <<>>
                  /\ generation_info' = NoneDict
                  /\ idx' = 0
             ELSE /\ pc' = "loop"
                  /\ raised' = None
                  /\ provider_order' =
                         _get_provider_order(preferred_provider, getenv_default(setting))
                  /\ generation_info' =
                         [providers_tried |-> <<>>, successful_provider |-> None,
                          fallback_used |-> FALSE, provider_statuses |-> <<>>]
                  /\ idx' = 1
    /\ op' = "generate_recipes"
    /\ in_flight' = {}
    /\ providers_tried' = <<>>
    /\ result' = NoResult
    /\ attempts' = <<>>
    /\ UNCHANGED <<_provider_status, ord_vars, fn_vars, ext_vars>>

\* the head of the loop of generate_recipes: the next provider is called, or the
\* loop is over
RecipesLoopStep ==
    /\ op = "generate_recipes"
    /\ pc = "loop"
    /\ IF idx > Len(provider_order)
       THEN /\ pc' = "raised"
            /\ raised' = Str_AllFailedMsg
            /\ UNCHANGED <<generation_info, in_flight, attempts>>
       ELSE /\ pc' = "await"
            /\ generation_info' =
                   [generation_info EXCEPT !.providers_tried =
                        Append(@, value(provider_order[idx]))]
            /\ in_flight' = in_flight \cup {provider_order[idx]}
            /\ attempts' = Append(attempts, <<"start", provider_order[idx]>>)
            /\ UNCHANGED raised
    /\ UNCHANGED <<_provider_status, op, pantry_ingredients, is_premium, provider_order,
                   idx, providers_tried, result, ord_vars, fn_vars, ext_vars>>

\* the provider call of generate_recipes returns
RecipesProviderReturns ==
    /\ op = "generate_recipes"
    /\ pc = "await"
    /\ LET provider == provider_order[idx] IN
       \E out \in _generate_with_provider(provider, pantry_ingredients, is_premium) :
          /\ ~out.raises
          /\ in_flight' = in_flight \ {provider}
          /\ IF out.recipes # <<>>
             THEN /\ generation_info' =
                         [generation_info EXCEPT
                             !.successful_provider = value(provider),
                             !.fallback_used = FallbackUsed(provider, provider_order)]
                  /\ _provider_status' =
                         _update_provider_status(_provider_status, provider, TRUE, None)
                  /\ result' = [recipes |-> out.recipes, generation_info |-> generation_info']
                  /\ pc' = AfterSuccess
                  /\ idx' = IF AfterSuccess = "done" THEN idx ELSE NextAttempt(idx)
                  /\ attempts' = Append(attempts, <<"ok", provider, out.parsed>>)
             ELSE /\ pc' = "loop"
                  /\ idx' = NextAttempt(idx)
                  /\ attempts' = Append(attempts, <<"empty", provider, out.parsed>>)
                  /\ UNCHANGED <<generation_info, _provider_status, result>>
    /\ UNCHANGED <<op, pantry_ingredients, is_premium, provider_order, providers_tried,
                   raised, ord_vars, fn_vars, ext_vars>>

\* the provider call of generate_recipes raises
RecipesProviderRaises ==
    /\ op = "generate_recipes"
    /\ pc = "await"
    /\ LET provider == provider_order[idx] IN
       \E out \in _generate_with_provider(provider, pantry_ingredients, is_premium) :
          /\ out.raises
          /\ in_flight' = in_flight \ {provider}
          /\ _provider_status' =
                 _update_provider_status(_provider_status, provider, FALSE, out.error)
          /\ generation_info' =
                 [generation_info EXCEPT !.provider_statuses =
                      Put(@, value(provider),
                          [error |-> out.error, quota_exceeded |-> QuotaExceeded(out.error)])]
          /\ attempts' = Append(attempts, <<"fail", provider, out.error>>)
    /\ idx' = NextAttempt(idx)
    /\ pc' = "loop"
    /\ UNCHANGED <<op, pantry_ingredients, is_premium, provider_order, providers_tried,
                   result, raised, ord_vars, fn_vars, ext_vars>>

\* generate_chat_response, from its entry to the head of the loop
CallGenerateChat ==
    /\ pc = "idle"
    /\ \E preferred_provider \in PreferredTokens, setting \in DefaultSettings :
          provider_order' = _get_provider_order(preferred_provider, getenv_default(setting))
    /\ op' = "generate_chat_response"
    /\ pc' = "loop"
    /\ idx' = 1
    /\ providers_tried' = <<>>
    /\ pantry_ingredients' = <<>>
    /\ is_premium' = FALSE
    /\ generation_info' = NoneDict
    /\ in_flight' = {}
    /\ result' = NoResult
    /\ raised' = None
    /\ attempts' = <<>>
    /\ UNCHANGED <<_provider_status, ord_vars, fn_vars, ext_vars>>

\* the head of the loop of generate_chat_response: the next provider is called, or
\* the loop is over and the mock response is returned
ChatLoopStep ==
    /\ op = "generate_chat_response"
    /\ pc = "loop"
    /\ IF idx > Len(provider_order)
       THEN /\ pc' = "done"
            /\ \E mock_response \in _generate_mock_chat :
                  result' = [response |-> mock_response,
                             successful_provider |-> Str_mock,
                             providers_tried |-> providers_tried,
                             fallback_used |-> TRUE]
            /\ UNCHANGED <<providers_tried, in_flight, attempts>>
       ELSE /\ pc' = "await"
            /\ providers_tried' = Append(providers_tried, value(provider_order[idx]))
            /\ in_flight' = in_flight \cup {provider_order[idx]}
            /\ attempts' = Append(attempts, <<"start", provider_order[idx]>>)
            /\ UNCHANGED result
    /\ UNCHANGED <<_provider_status, op, pantry_ingredients, is_premium, provider_order,
                   idx, generation_info, raised, ord_vars, fn_vars, ext_vars>>

\* the provider call of generate_chat_response returns
ChatProviderReturns ==
    /\ op = "generate_chat_response"
    /\ pc = "await"
    /\ LET provider == provider_order[idx] IN
       \E out \in _generate_chat(provider) :
          /\ ~out.raises
          /\ in_flight' = in_flight \ {provider}
          /\ result' = [response |-> out.response,
                        successful_provider |-> value(provider),
                        providers_tried |-> providers_tried,
                        fallback_used |-> ChatFallbackUsed(providers_tried)]
          /\ attempts' = Append(attempts, <<"ok", provider>>)
    /\ pc' = "done"
    /\ UNCHANGED <<_provider_status, op, pantry_ingredients, is_premium, provider_order,
                   idx, generation_info, providers_tried, raised, ord_vars, fn_vars, ext_vars>>

\* the provider call of generate_chat_response raises
ChatProviderRaises ==
    /\ op = "generate_chat_response"
    /\ pc = "await"
    /\ LET provider == provider_order[idx] IN
       \E out \in _generate_chat(provider) :
          /\ out.raises
          /\ in_flight' = in_flight \ {provider}
          /\ attempts' = Append(attempts, <<"fail", provider, out.error>>)
    /\ idx' = NextAttempt(idx)
    /\ pc' = "loop"
    /\ UNCHANGED <<_provider_status, op, pantry_ingredients, is_premium, provider_order,
                   generation_info, providers_tried, result, raised, ord_vars, fn_vars, ext_vars>>

\* the caller takes what the call returned or raised; the service is idle again
Return ==
    /\ pc \in {"done", "raised"}
    /\ pc' = "idle"
    /\ op' = "none"
    /\ pantry_ingredients' = <<>>
    /\ is_premium' = FALSE
    /\ provider_order' = <<>>
    /\ idx' = 0
    /\ in_flight' = {}
    /\ generation_info' = NoneDict
    /\ providers_tried' = <<>>
    /\ result' = NoResult
    /\ raised' = None
    /\ attempts' = <<>>
    /\ UNCHANGED <<_provider_status, ord_vars, fn_vars, ext_vars>>

Step ==
    \/ RecipesLoopStep
    \/ RecipesProviderReturns
    \/ RecipesProviderRaises
    \/ ChatLoopStep
    \/ ChatProviderReturns
    \/ ChatProviderRaises

Next ==
    \/ CallGenerateRecipes
    \/ CallGenerateChat
    \/ RecipesLoopStep
    \/ RecipesProviderReturns
    \/ RecipesProviderRaises
    \/ ChatLoopStep
    \/ ChatProviderReturns
    \/ ChatProviderRaises
    \/ Return

Spec == Init /\ [][Next]_vars

\* every provider call eventually returns or raises, and the event loop resumes a
\* call that can go on
FairSpec == Spec /\ WF_vars(Step)

-----------------------------------------------------------------------------
(* The ordering policy applied alone to every pair of inputs *)

OrderInit ==
    /\ _provider_status = <<>>
    /\ op = "none"
    /\ pc = "idle"
    /\ pantry_ingredients = <<>>
    /\ is_premium = FALSE
    /\ provider_order = <<>>
    /\ idx = 0
    /\ in_flight = {}
    /\ generation_info = NoneDict
    /\ providers_tried = <<>>
    /\ result = NoResult
    /\ raised = None
    /\ attempts = <<>>
    /\ o_preferred \in PreferredTokens
    /\ o_default \in DefaultSettings
    /\ o_order = None
    /\ args = NoneDict
    /\ returned = NoneDict
    /\ ExtIdle

ResolveOrder ==
    /\ o_order = None
    /\ o_order' = _get_provider_order(o_preferred, getenv_default(o_default))
    /\ UNCHANGED <<svc_vars, o_preferred, o_default, fn_vars, ext_vars>>

OrderNext == ResolveOrder

OrderSpec == OrderInit /\ [][OrderNext]_vars

-----------------------------------------------------------------------------
(* Properties of the drivers *)

RecipesDone == op = "generate_recipes" /\ pc = "done"
ChatDone == op = "generate_chat_response" /\ pc = "done"
RecipesEnded == op = "generate_recipes" /\ pc \in {"done", "raised"}

IsPrefix(s, t) == Len(s) <= Len(t) /\ SubSeq(t, 1, Len(s)) = s

\* the values of the providers of an order
Values(order) == [i \in 1..Len(order) |-> value(order[i])]

\* the providers whose attempt in the call in progress ended with the given event
Ended(event) ==
    {p \in AIProvider :
        \E i \in 1..Len(attempts) : attempts[i][1] = event /\ attempts[i][2] = p}

\* the message with which the attempt on provider p of the call in progress failed
FailureOf(p) ==
    LET i == CHOOSE k \in 1..Len(attempts) : attempts[k][1] = "fail" /\ attempts[k][2] = p
    IN  attempts[i][3]

\* C1: a generate_recipes call with a non-empty ingredient list ends by returning, never
\* by raising, whatever the external providers did; the recipe list it returns is not
\* empty and providers_tried is a non-empty prefix of the order resolved for the call.
C1_NonEmptyResult ==
    (RecipesEnded /\ pantry_ingredients # <<>>) =>
        /\ pc = "done"
        /\ result.recipes # <<>>
        /\ result.generation_info.providers_tried # <<>>
        /\ IsPrefix(result.generation_info.providers_tried, Values(provider_order))

\* a call returned after two external providers had failed
C1_Witness ==
    /\ RecipesDone
    /\ pantry_ingredients # <<>>
    /\ Cardinality(Ended("fail") \cap External) >= 2
    /\ Len(result.generation_info.providers_tried) = 3

\* C2: no provider failure reaches the caller of generate_recipes: the total-failure
\* exception is never raised, and when the call returns, the providers that raised are
\* exactly those listed with their error in the metadata, next to a successful provider.
C2_FailuresOnlyMetadata ==
    /\ raised # Str_AllFailedMsg
    /\ (op = "generate_recipes" /\ pc = "raised") => pantry_ingredients = <<>>
    /\ RecipesDone =>
          /\ result.generation_info.successful_provider # None
          /\ DOMAIN result.generation_info.provider_statuses
                 = {value(p) : p \in Ended("fail")}
          /\ \A p \in Ended("fail") :
                 /\ value(p) # result.generation_info.successful_provider
                 /\ result.generation_info.provider_statuses[value(p)].error = FailureOf(p)

\* a call returned after every external provider had raised
C2_Witness ==
    /\ RecipesDone
    /\ Ended("fail") = External
    /\ result.generation_info.successful_provider = Str_mock

\* each provider of the call in progress was attempted at most once
AtMostOneAttemptEach ==
    /\ Cardinality({i \in 1..Len(attempts) : attempts[i][1] = "start"}) <= Cardinality(AIProvider)
    /\ \A i, j \in 1..Len(attempts) :
          (attempts[i][1] = "start" /\ attempts[j][1] = "start" /\ attempts[i][2] = attempts[j][2])
              => i = j

\* C3: when every provider call returns or raises, a generate_recipes call with
\* ingredients and a generate_chat_response call, once at their loop, end by returning
\* a result, and no provider is attempted twice on the way.
C3_Terminates ==
    /\ (pc = "loop") ~> (pc = "done")
    /\ [](AtMostOneAttemptEach)

\* a call returned after it had attempted all five providers
C3_Witness ==
    /\ pc = "done"
    /\ Cardinality({i \in 1..Len(attempts) : attempts[i][1] = "start"}) = 5

\* C6: in what both drivers return, fallback_used is true exactly when the successful
\* provider is not the first of the resolved order; when the first provider attempted
\* raised, fallback_used is true and the successful provider was tried second or later.
C6_FallbackUsed ==
    LET info == IF op = "generate_recipes" THEN result.generation_info ELSE result
    IN  pc = "done" =>
          /\ info.fallback_used <=> (info.successful_provider # value(provider_order[1]))
          /\ provider_order[1] \in Ended("fail") =>
                /\ info.fallback_used
                /\ \E k \in 2..Len(info.providers_tried) :
                      info.providers_tried[k] = info.successful_provider

\* a chat call returned the answer of its second provider after the first had raised
C6_Witness ==
    /\ ChatDone
    /\ provider_order[1] \in Ended("fail")
    /\ result.successful_provider = value(provider_order[2])
    /\ result.fallback_used

\* the k-th provider call of the call in progress is the event at position 2k - 1
\* and its end the event at position 2k
AttemptsInOrder ==
    \A i \in 1..Len(attempts) :
       IF i % 2 = 1
       THEN /\ attempts[i] = <<"start", provider_order[(i + 1) \div 2]>>
            /\ i > 1 => attempts[i - 1][1] \in {"fail", "empty"}
       ELSE /\ attempts[i][1] \in {"ok", "fail", "empty"}
            /\ attempts[i][2] = provider_order[i \div 2]

\* C7: within one call the providers are attempted one at a time in resolved order: a
\* provider call starts only when every earlier provider of the order was called and
\* failed, at most one call is in flight, no provider is called twice and none after a
\* success.
C7_Sequential ==
    /\ Cardinality(in_flight) <= 1
    /\ AttemptsInOrder
    /\ (Len(attempts) + 1) \div 2 <= Len(provider_order)
    /\ in_flight = IF Len(attempts) % 2 = 1 THEN {attempts[Len(attempts)][2]} ELSE {}
    /\ \A i \in 1..Len(attempts) : attempts[i][1] = "ok" => i = Len(attempts)

\* the third provider of the order is in flight after the first two have failed
C7_Witness ==
    /\ Len(attempts) = 5
    /\ in_flight = {provider_order[3]}
    /\ Ended("fail") = {provider_order[1], provider_order[2]}

\* no external provider produced the result of the call in progress
NoExternalSucceeded == Ended("ok") \cap External = {}

C9_StatusRecorded ==
    RecipesDone =>
        \A i \in 1..Len(result.generation_info.providers_tried) :
           LET v == result.generation_info.providers_tried[i]
               p == provider_order[i]
           IN  /\ p \in DOMAIN _provider_status
               /\ _provider_status[p].provider = p
               /\ IF v = result.generation_info.successful_provider
                  THEN /\ _provider_status[p].available
                       /\ _provider_status[p].error = None
                  ELSE /\ ~_provider_status[p].available
                       /\ v \in DOMAIN result.generation_info.provider_statuses
                       /\ _provider_status[p].error = FailureOf(p)

\* a call returned with a failed and a successful provider, both recorded
C9_Witness ==
    /\ RecipesDone
    /\ Len(result.generation_info.providers_tried) = 2
    /\ ~_provider_status[provider_order[1]].available
    /\ _provider_status[provider_order[1]].error = Str_QuotaMsg
    /\ _provider_status[provider_order[2]].available

\* C10: when generate_chat_response returns, the shared record of every provider it
\* attempted is the outcome of that attempt, as for generate_recipes.
C10_ChatStatusRecorded ==
    ChatDone =>
        \A i \in 1..Len(result.providers_tried) :
           LET p == provider_order[i]
           IN  /\ p \in DOMAIN _provider_status
               /\ _provider_status[p].available
                      = (result.providers_tried[i] = result.successful_provider)

-----------------------------------------------------------------------------
(* Properties of the ordering policy *)

\* the preferred_provider arguments that name each provider
KnownTokens ==
    [p \in AIProvider |->
        CASE p = "GEMINI" -> {Str_gemini, Str_GEMINI}
          [] p = "OPENAI" -> {Str_openai, Str_OpenAI}
          [] p = "HUGGINGFACE" -> {Str_huggingface, Str_HuggingFace}
          [] p = "COHERE" -> {Str_cohere, Str_COHERE}
          [] p = "MOCK" -> {Str_mock, Str_Mock}]

\* the provider a token names, "" when it names none; an unset default is gemini
Named(token) ==
    IF \E p \in AIProvider : token \in KnownTokens[p]
    THEN CHOOSE p \in AIProvider : token \in KnownTokens[p]
    ELSE ""

\* position of a provider in the canonical fallback sequence
Canonical(p) == CHOOSE i \in 1..Len(_fallback_order) : _fallback_order[i] = p

\* C4: when preferred_provider names a provider, in any casing, the resolved order starts
\* with that provider, whatever the configured default is.
C4_PreferredFirst ==
    \A p \in AIProvider :
       (o_order # None /\ o_preferred \in KnownTokens[p]) => o_order[1] = p

\* cohere asked for in capitals while the configured default is mock
C4_Witness ==
    /\ o_order # None
    /\ o_preferred = Str_COHERE
    /\ o_default = Str_Mock
    /\ o_order[1] = "COHERE"

\* C5: the resolved order is the chosen provider (the preferred one if it is known, else
\* the default if it is known) followed by the others in canonical sequence; it holds
\* each of the five providers once, and it is the canonical sequence when neither token
\* names a provider.
C5_TotalOrder ==
    o_order # None =>
        LET first == IF Named(o_preferred) # "" THEN Named(o_preferred)
                     ELSE IF o_default = None THEN "GEMINI" ELSE Named(o_default)
        IN  /\ Len(o_order) = 5
            /\ {o_order[i] : i \in 1..Len(o_order)} = AIProvider
            /\ first # "" => o_order[1] = first
            /\ \A i, j \in 2..Len(o_order) :
                  i < j => Canonical(o_order[i]) < Canonical(o_order[j])
            /\ first = "" => o_order = <<"GEMINI", "OPENAI", "HUGGINGFACE", "COHERE", "MOCK">>

\* an unknown preferred token and an unknown default: the canonical sequence
C5_Witness ==
    /\ o_order = <<"GEMINI", "OPENAI", "HUGGINGFACE", "COHERE", "MOCK">>
    /\ o_preferred = Str_auto
    /\ o_default = Str_llama

-----------------------------------------------------------------------------
(* The except branch of the loop of generate_recipes applied alone to one   *)
(* provider and one failure message                                         *)

Str_QuotaUpperMsg == <<"Q", "U", "O", "T", "A", " ", "E", "X", "C", "E", "E", "D", "E", "D">>
Str_429Msg == <<"4", "2", "9", " ", "T", "o", "o", " ", "M", "a", "n", "y", " ", "R", "e", "q", "u", "e", "s", "t", "s">>
Str_ErrorCode429Msg == <<"E", "r", "r", "o", "r", " ", "c", "o", "d", "e", ":", " ", "4", "2", "9">>
Str_RateLimitMsg == <<"R", "a", "t", "e", " ", "l", "i", "m", "i", "t", " ", "r", "e", "a", "c", "h", "e", "d">>
Str_RateLimitLowerMsg == <<"r", "a", "t", "e", " ", "l", "i", "m", "i", "t", " ", "e", "x", "c", "e", "e", "d", "e", "d">>
Str_RateLimitUpperMsg == <<"R", "A", "T", "E", " ", "L", "I", "M", "I", "T">>
Str_ConnectionMsg == <<"C", "o", "n", "n", "e", "c", "t", "i", "o", "n", " ", "e", "r", "r", "o", "r">>
Str_TimeoutMsg == <<"R", "e", "q", "u", "e", "s", "t", " ", "t", "i", "m", "e", "d", " ", "o", "u", "t">>
Str_InsufficientQuotaMsg == <<"i", "n", "s", "u", "f", "f", "i", "c", "i", "e", "n", "t", "_", "q", "u", "o", "t", "a">>
Str_ExhaustedMsg == <<"R", "e", "s", "o", "u", "r", "c", "e", " ", "e", "x", "h", "a", "u", "s", "t", "e", "d">>
Str_ErrorCode401Msg == <<"E", "r", "r", "o", "r", " ", "c", "o", "d", "e", ":", " ", "4", "0", "1">>
Str_CurrentQuotaMsg == <<"Y", "o", "u", " ", "e", "x", "c", "e", "e", "d", "e", "d", " ", "y", "o", "u", "r", " ", "c", "u", "r", "r", "e", "n", "t", " ", "q", "u", "o", "t", "a">>
Str_rate_limit == <<"r", "a", "t", "e", " ", "l", "i", "m", "i", "t">>

\* str(e) of the exceptions a failed attempt may end with
FailureMessages ==
    {Str_empty, Str_QuotaMsg, Str_QuotaUpperMsg, Str_429Msg, Str_ErrorCode429Msg,
     Str_RateLimitMsg, Str_RateLimitLowerMsg, Str_RateLimitUpperMsg, Str_ConnectionMsg,
     Str_TimeoutMsg, Str_InsufficientQuotaMsg, Str_ExhaustedMsg, Str_ErrorCode401Msg,
     Str_CurrentQuotaMsg, Str_OpenAIKeyMsg, Str_GeminiKeyMsg, Str_HuggingFaceKeyMsg,
     Str_CohereKeyMsg}

QuotaInit ==
    /\ _provider_status = <<>>
    /\ op = "none"
    /\ pc = "idle"
    /\ pantry_ingredients = <<>>
    /\ is_premium = FALSE
    /\ provider_order = <<>>
    /\ idx = 0
    /\ in_flight = {}
    /\ generation_info = NoneDict
    /\ providers_tried = <<>>
    /\ result = NoResult
    /\ raised = None
    /\ attempts = <<>>
    /\ o_preferred = None
    /\ o_default = None
    /\ o_order = None
    /\ \E provider \in External, error_msg \in FailureMessages :
          args = [provider |-> provider, error_msg |-> error_msg]
    /\ returned = NoneDict
    /\ ExtIdle

\* except Exception as e: the status record and the metadata entry of the attempt
RecordFailure ==
    /\ returned = NoneDict
    /\ _provider_status' =
           _update_provider_status(_provider_status, args.provider, FALSE, args.error_msg)
    /\ returned' = [error |-> args.error_msg,
                    quota_exceeded |-> QuotaExceeded(args.error_msg)]
    /\ UNCHANGED <<op, pc, pantry_ingredients, is_premium, provider_order, idx, in_flight,
                   generation_info, providers_tried, result, raised, attempts, ord_vars,
                   args, ext_vars>>

QuotaNext == RecordFailure

QuotaSpec == QuotaInit /\ [][QuotaNext]_vars

\* the message tells of a quota, of a rate limit or of HTTP status 429
IndicatesQuota(error_msg) ==
    \/ Contains(lower(error_msg), Str_quota)
    \/ Contains(lower(error_msg), Str_rate_limit)
    \/ Contains(error_msg, Str_429)

\* C11: the quota_exceeded flag recorded for a failed attempt is true exactly when
\* the failure message holds a quota or rate-limit substring, in any casing, or an
\* HTTP 429 indicator
C11_QuotaFlag ==
    returned # NoneDict => returned.quota_exceeded = IndicatesQuota(args.error_msg)

-----------------------------------------------------------------------------
(* Properties of generate_recipes on an empty ingredient list *)

EmptyCall == op = "generate_recipes" /\ pantry_ingredients = <<>>

\* C12: generate_recipes called with an empty ingredient list fails at once with an
\* error: no provider is attempted and no provider status record is created or
\* changed by the call
C12_EmptyFailsAtOnce ==
    /\ [](EmptyCall =>
            /\ pc = "raised"
            /\ raised = Str_EmptyIngredientsMsg
            /\ attempts = <<>>
            /\ in_flight = {}
            /\ result = NoResult)
    /\ [][EmptyCall' => _provider_status' = _provider_status]_vars

\* the call has failed while the status map holds records of earlier calls
C12_Witness == EmptyCall /\ pc = "raised" /\ DOMAIN _provider_status # {}

-----------------------------------------------------------------------------
(* The response parser applied alone to response texts of up to MaxSections *)
(* delimiter-separated sections                                             *)

MaxSections == 4

\* a recipe in the format the standard prompt asks for
StandardSection ==
    <<Line("Recipe Name", <<"Ugali">>),
      Line("Origin", <<"Kenya">>),
      Line("Ingredients", <<"maize flour", "water">>),
      Line("Instructions", <<"boil the water", "stir in the flour">>),
      Line("Health Benefits", <<"rich in energy">>),
      Line("Cultural Context", <<"a staple of East Africa">>),
      Line("Cooking Time", <<"20 minutes">>)>>

\* a recipe in the format the premium prompt asks for
PremiumSection ==
    StandardSection
    \o <<NutritionLine(<<Fact(350, "", "calories"), Fact(20, "g", "protein")>>)>>

\* what may stand between two delimiters: nothing, white space, a recipe in either
\* prompt format, a recipe with one labelled field, a recipe whose nutrition line
\* holds no number, a recipe with its fields in another order
SectionTexts ==
    { <<>>,
      <<Blank>>,
      StandardSection,
      PremiumSection,
      <<Blank, Line("Recipe Name", <<"Githeri">>), Blank>>,
      <<Line("Recipe Name", <<"Matoke">>), Line("Nutrition Info", <<"rich in vitamins">>)>>,
      <<Line("Health Benefits", <<"rich in fibre">>), Blank, Line("Origin", <<"Mali">>)>> }

RECURSIVE TextsOf(_)
\* the response texts of k sections
TextsOf(k) ==
    IF k = 1 THEN SectionTexts
    ELSE {sec \o <<Delim>> \o text : sec \in SectionTexts, text \in TextsOf(k - 1)}

ParseInit ==
    /\ _provider_status = <<>>
    /\ op = "none"
    /\ pc = "idle"
    /\ pantry_ingredients = <<>>
    /\ is_premium = FALSE
    /\ provider_order = <<>>
    /\ idx = 0
    /\ in_flight = {}
    /\ generation_info = NoneDict
    /\ providers_tried = <<>>
    /\ result = NoResult
    /\ raised = None
    /\ attempts = <<>>
    /\ o_preferred = None
    /\ o_default = None
    /\ o_order = None
    /\ \E k \in 1..MaxSections : \E text \in TextsOf(k) : \E premium \in BOOLEAN :
          args = [response_text |-> text, is_premium |-> premium]
    /\ returned = NoneDict
    /\ ExtIdle

\* recipes = MultiAIService._parse_recipe_response(response_text, is_premium)
Parse ==
    /\ returned = NoneDict
    /\ returned' = [recipes |-> _parse_recipe_response(args.response_text, args.is_premium)]
    /\ UNCHANGED <<svc_vars, ord_vars, args, ext_vars>>

ParseNext == Parse

ParseSpec == ParseInit /\ [][ParseNext]_vars

\* the sections of a text that are not empty or white space, as the parser sees them
NonEmptySections(text) ==
    LET kept == SelectSeq(split(text), LAMBDA sec : strip(sec) # <<>>)
    IN  [i \in 1..Len(kept) |-> strip(kept[i])]

\* C14: the parser produces one recipe, in order, for each of the first three
\* non-empty sections of the text and never more than three; empty sections,
\* leading ones included, do not reduce the number
C14_FirstThreeNonEmpty ==
    (returned # NoneDict /\ NonEmptySections(args.response_text) # <<>>) =>
        LET sections == NonEmptySections(args.response_text)
        IN  /\ Len(returned.recipes) = Min(3, Len(sections))
            /\ \A i \in 1..Len(returned.recipes) :
                   returned.recipes[i] = _extract_recipe_data(sections[i], args.is_premium)

\* the value of the first line of a section carrying one of the labels, as a text
LabelText(section, labels, default) ==
    IF Search(section, labels) # 0
    THEN RestOfLine(section[Search(section, labels)]) ELSE default

\* the value of the first line of a section carrying one of the labels, as a list
LabelList(section, labels) ==
    IF Search(section, labels) # 0
    THEN [k \in 1..Len(section[Search(section, labels)].val) |->
             <<section[Search(section, labels)].val[k]>>]
    ELSE <<>>

\* C15: a text of exactly two non-empty sections yields exactly two recipes, the
\* i-th built from the i-th section: each labelled field present in the section is
\* taken from it, each absent label gets its fixed default
C15_TwoSections ==
    (/\ returned # NoneDict
     /\ Len(split(args.response_text)) = 2
     /\ Len(NonEmptySections(args.response_text)) = 2) =>
        /\ Len(returned.recipes) = 2
        /\ \A i \in 1..Len(returned.recipes) :
              LET section == NonEmptySections(args.response_text)[i]
                  recipe == returned.recipes[i]
              IN  /\ recipe.name =
                         LabelText(section, {"Recipe Name", "Name"}, <<"African Recipe">>)
                  /\ recipe.origin = LabelText(section, {"Origin"}, <<"Africa">>)
                  /\ recipe.ingredients = LabelList(section, {"Ingredients", "Ingredient"})
                  /\ recipe.instructions =
                         LabelList(section, {"Instructions", "Instruction"})
                  /\ recipe.health_benefits =
                         LabelText(section, {"Health Benefits", "Health Benefit"},
                                   <<"Nutritious and delicious">>)
                  /\ recipe.cultural_context =
                         LabelText(section, {"Cultural Context"},
                                   <<"Traditional African cuisine">>)
                  /\ recipe.cooking_time =
                         LabelText(section, {"Cooking Time"}, <<"30 minutes">>)

\* the text holds a calorie, protein or fiber figure
HasNutritionData(text) == DOMAIN _parse_nutrition(AllFacts(text)) # {}

\* C16: a returned recipe has a nutrition sub-record only if the request was premium
\* and the source text held parseable nutrition data; a recipe of a non-premium
\* request has none
C16_NutritionOnlyParsedPremium ==
    returned # NoneDict =>
        \A i \in 1..Len(returned.recipes) :
            /\ returned.recipes[i].nutrition_info # NoneDict =>
                   (args.is_premium /\ HasNutritionData(args.response_text))
            /\ ~args.is_premium => returned.recipes[i].nutrition_info = NoneDict

-----------------------------------------------------------------------------
(* Properties of generate_recipes on a provider text without recipes *)

\* the external providers whose text, in the call in progress, parsed to no recipe
ZeroParsed ==
    {p \in External :
        \E i \in 1..Len(attempts) :
            attempts[i][1] \in {"ok", "empty"} /\ attempts[i][2] = p /\ attempts[i][3] = 0}

\* C13: an external provider whose response parses to zero recipes is treated as
\* failed: it is not the successful provider, its attempt is recorded as a failure
\* and the recipes returned are those of the built-in generator reached by fallback
C13_ZeroParseIsFailure ==
    RecipesDone =>
        \A p \in ZeroParsed :
            /\ result.generation_info.successful_provider # value(p)
            /\ value(p) \in DOMAIN result.generation_info.provider_statuses
            /\ result.generation_info.successful_provider = Str_mock
            /\ result.recipes = _generate_mock_recipes(pantry_ingredients, is_premium)

-----------------------------------------------------------------------------
(* The built-in recipe generator applied alone to ingredient lists of up to *)
(* MaxIngredients names                                                     *)

MaxIngredients == 4

\* names a caller may pass, the empty string included
IngredientNames == {"rice", "beans", ""}

RECURSIVE ListsOf(_)
\* the lists of k ingredient names
ListsOf(k) ==
    IF k = 0 THEN { <<>> }
    ELSE {<<x>> \o xs : x \in IngredientNames, xs \in ListsOf(k - 1)}

MockInit ==
    /\ _provider_status = <<>>
    /\ op = "none"
    /\ pc = "idle"
    /\ pantry_ingredients = <<>>
    /\ is_premium = FALSE
    /\ provider_order = <<>>
    /\ idx = 0
    /\ in_flight = {}
    /\ generation_info = NoneDict
    /\ providers_tried = <<>>
    /\ result = NoResult
    /\ raised = None
    /\ attempts = <<>>
    /\ o_preferred = None
    /\ o_default = None
    /\ o_order = None
    /\ \E k \in 1..MaxIngredients : \E ingredients \in ListsOf(k) : \E premium \in BOOLEAN :
          args = [pantry_ingredients |-> ingredients, is_premium |-> premium]
    /\ returned = NoneDict
    /\ ExtIdle

\* recipes = MultiAIService._generate_mock_recipes(pantry_ingredients, health_goals, is_premium)
GenerateMock ==
    /\ returned = NoneDict
    /\ returned' = [recipes |-> _generate_mock_recipes(args.pantry_ingredients,
                                                       args.is_premium)]
    /\ UNCHANGED <<svc_vars, ord_vars, args, ext_vars>>

MockNext == GenerateMock

MockSpec == MockInit /\ [][MockNext]_vars

\* a text, given as its parts, has a character
NonEmptyText(text) == \E i \in 1..Len(text) : text[i] # ""

\* the recipe has a name, an origin, health benefits, a cultural context and a cooking
\* time that are non-empty texts, and non-empty lists of ingredients and instructions
Complete(recipe) ==
    /\ NonEmptyText(recipe.name)
    /\ NonEmptyText(recipe.origin)
    /\ NonEmptyText(recipe.health_benefits)
    /\ NonEmptyText(recipe.cultural_context)
    /\ NonEmptyText(recipe.cooking_time)
    /\ recipe.ingredients # <<>>
    /\ recipe.instructions # <<>>

\* C17: for every ingredient list of one, two or more names and for either tier the
\* built-in generator returns at least one recipe whose text fields are non-empty
\* and whose ingredient and instruction lists are non-empty
C17_MockComplete ==
    returned # NoneDict =>
        \E i \in 1..Len(returned.recipes) : Complete(returned.recipes[i])

\* the generator has answered a premium request with more than two ingredients
C17_Witness ==
    /\ returned # NoneDict
    /\ Len(args.pantry_ingredients) > 2
    /\ args.is_premium
    /\ \A i \in 1..Len(returned.recipes) : Complete(returned.recipes[i])

-----------------------------------------------------------------------------
(* Properties of generate_chat_response on an empty provider response *)

\* C18: the chat driver treats an empty response as a failed attempt and tries the
\* next provider: the response text that generate_chat_response returns is never
\* empty, and it is the response of a provider whose call returned a non-empty text
C18_ChatNeverEmpty ==
    ChatDone => NonEmptyText(result.response)

-----------------------------------------------------------------------------
(* Properties of the names under which the drivers report the provider *)

\* C20: the metadata of generate_recipes and the result of generate_chat_response
\* report the provider in a field named provider_used; with the built-in generator
\* preferred, generate_recipes returns at least one recipe with a name and
\* ingredients and metadata whose provider_used is "mock"
C20_ProviderUsed ==
    /\ ChatDone => "provider_used" \in DOMAIN result
    /\ RecipesDone =>
           /\ "provider_used" \in DOMAIN result.generation_info
           /\ provider_order[1] = "MOCK" =>
                  /\ Len(result.recipes) >= 1
                  /\ \A i \in 1..Len(result.recipes) :
                         /\ NonEmptyText(result.recipes[i].name)
                         /\ result.recipes[i].ingredients # <<>>
                  /\ result.generation_info.provider_used = Str_mock

-----------------------------------------------------------------------------
(* The active probe check_all_providers, one call at a time on the status   *)
(* map that earlier probes left                                             *)

Str_NotInitialized == <<"N", "o", "t", " ", "i", "n", "i", "t", "i", "a", "l", "i", "z", "e", "d">>

\* for provider in AIProvider: the members in definition order
Members == <<"OPENAI", "GEMINI", "HUGGINGFACE", "COHERE", "MOCK">>

\* str(e) of what a capability check may raise
ProbeErrors == {Str_ConnectionMsg, Str_ErrorCode401Msg}

\* a faulty variant: a failed check ends the loop
AfterProbeRaises_stop(i) == Len(Members) + 1

\* the except branches of _check_provider_status and check_all_providers end the
\* iteration for one provider; the loop goes on with the next
AfterProbeRaises(i) == i + 1

\* MultiAIService.get_provider_statuses (the static cost_per_request, premium_only and
\* display_name and the wall-clock last_checked are left out)
get_provider_statuses(status) ==
    [v \in {value(p) : p \in AIProvider} |->
        IF AIProviderOf(v) \in DOMAIN status
        THEN [available |-> status[AIProviderOf(v)].available,
              quota_remaining |-> status[AIProviderOf(v)].quota_remaining,
              error |-> status[AIProviderOf(v)].error]
        ELSE [available |-> FALSE, quota_remaining |-> FALSE,
              error |-> Str_NotInitialized]]

\* check_all_providers, from its entry to the head of the loop
CallCheckAllProviders ==
    /\ pc = "idle"
    /\ op' = "check_all_providers"
    /\ pc' = "loop"
    /\ idx' = 1
    /\ attempts' = <<>>
    /\ result' = NoResult
    /\ raised' = None
    /\ UNCHANGED <<_provider_status, pantry_ingredients, is_premium, provider_order,
                   in_flight, generation_info, providers_tried, ord_vars, fn_vars, ext_vars>>

\* _check_provider_status(provider): the capability check passes
ProbePasses ==
    /\ op = "check_all_providers"
    /\ pc = "loop"
    /\ idx <= Len(Members)
    /\ _provider_status' =
           Put(_provider_status, Members[idx],
               AIProviderStatus(Members[idx], TRUE, TRUE, None))
    /\ attempts' = Append(attempts, <<"ok", Members[idx]>>)
    /\ idx' = idx + 1
    /\ UNCHANGED <<op, pc, pantry_ingredients, is_premium, provider_order, in_flight,
                   generation_info, providers_tried, result, raised, ord_vars, fn_vars, ext_vars>>

\* _check_provider_status(provider): the capability check of an external provider
\* raises
ProbeRaises ==
    /\ op = "check_all_providers"
    /\ pc = "loop"
    /\ idx <= Len(Members)
    /\ Members[idx] \in External
    /\ \E e \in ProbeErrors :
          /\ _provider_status' =
                 Put(_provider_status, Members[idx],
                     AIProviderStatus(Members[idx], FALSE, FALSE, e))
          /\ attempts' = Append(attempts, <<"fail", Members[idx], e>>)
    /\ idx' = AfterProbeRaises(idx)
    /\ UNCHANGED <<op, pc, pantry_ingredients, is_premium, provider_order, in_flight,
                   generation_info, providers_tried, result, raised, ord_vars, fn_vars, ext_vars>>

\* return MultiAIService.get_provider_statuses()
CheckAllReturns ==
    /\ op = "check_all_providers"
    /\ pc = "loop"
    /\ idx > Len(Members)
    /\ result' = get_provider_statuses(_provider_status)
    /\ pc' = "done"
    /\ UNCHANGED <<_provider_status, op, pantry_ingredients, is_premium, provider_order,
                   idx, in_flight, generation_info, providers_tried, raised, attempts,
                   ord_vars, fn_vars, ext_vars>>

ProbeNext ==
    \/ CallCheckAllProviders
    \/ ProbePasses
    \/ ProbeRaises
    \/ CheckAllReturns
    \/ Return

ProbeSpec == Init /\ [][ProbeNext]_vars

ProbeDone == op = "check_all_providers" /\ pc = "done"

\* C19: check_all_providers probes every provider whatever the earlier probes gave:
\* afterwards each of the five providers has a status record written by this run
\* (none is reported 'Not initialized'), a failed probe is recorded unavailable with
\* its error text, and the built-in generator is recorded available
C19_AllProbed ==
    ProbeDone =>
        /\ \A p \in AIProvider :
              /\ p \in Ended("ok") \cup Ended("fail")
              /\ p \in DOMAIN _provider_status
              /\ result[value(p)].error # Str_NotInitialized
              /\ p \in Ended("ok") =>
                     /\ _provider_status[p] = AIProviderStatus(p, TRUE, TRUE, None)
                     /\ result[value(p)].available
              /\ p \in Ended("fail") =>
                     /\ ~_provider_status[p].available
                     /\ _provider_status[p].error = FailureOf(p)
                     /\ ~result[value(p)].available
                     /\ result[value(p)].error = FailureOf(p)
        /\ _provider_status["MOCK"].available
        /\ result[Str_mock].available

\* a probe run has returned in which the first check failed and a later one passed
C19_Witness ==
    /\ ProbeDone
    /\ "OPENAI" \in Ended("fail")
    /\ "COHERE" \in Ended("ok")

-----------------------------------------------------------------------------
(* Service calls interleaved on the event loop.  A coroutine runs without   *)
(* interruption between two awaits, so a call is suspended only while its   *)
(* provider call (or its probe of one provider) is under way; every action  *)
(* below is one such uninterrupted stretch of one call.  _provider_status   *)
(* is the class attribute all calls share; everything else is local.        *)

NumCalls == 2
CallIds == 1..NumCalls

\* the preferred_provider arguments of the interleaved requests
ConcPreferred == {None, Str_openai, Str_mock}

\* a call that has not been made
NoCall ==
    [op |-> "none", pc |-> "idle", pantry_ingredients |-> <<>>, is_premium |-> FALSE,
     provider_order |-> <<>>, idx |-> 0, generation_info |-> NoneDict,
     result |-> NoResult, raised |-> None, own |-> <<>>]

ConcInit ==
    /\ _provider_status = <<>>
    /\ op = "none"
    /\ pc = "idle"
    /\ pantry_ingredients = <<>>
    /\ is_premium = FALSE
    /\ provider_order = <<>>
    /\ idx = 0
    /\ in_flight = {}
    /\ generation_info = NoneDict
    /\ providers_tried = <<>>
    /\ result = NoResult
    /\ raised = None
    /\ attempts = <<>>
    /\ o_preferred = None
    /\ o_default = None
    /\ o_order = None
    /\ args = NoneDict
    /\ returned = NoneDict
    /\ calls = [c \in CallIds |-> NoCall]
    /\ last_outcome = <<>>
    /\ NotConcIdle

\* what the concurrent calls leave alone: the locals of the sequential drivers
seq_vars == <<op, pc, pantry_ingredients, is_premium, provider_order, idx, in_flight,
              generation_info, providers_tried, result, raised, attempts, ord_vars, fn_vars,
              not_conc>>

\* a request enters generate_recipes and reaches the head of the loop
ConcCallGenerateRecipes ==
    /\ \E c \in CallIds, preferred_provider \in ConcPreferred :
          /\ calls[c].pc = "idle"
          /\ calls' = [calls EXCEPT ![c] =
                 [op |-> "generate_recipes", pc |-> "loop",
                  pantry_ingredients |-> <<"rice", "beans">>, is_premium |-> FALSE,
                  provider_order |->
                      _get_provider_order(preferred_provider, getenv_default(None)),
                  idx |-> 1,
                  generation_info |->
                      [providers_tried |-> <<>>, successful_provider |-> None,
                       fallback_used |-> FALSE, provider_statuses |-> <<>>],
                  result |-> NoResult, raised |-> None, own |-> <<>>]]
    /\ UNCHANGED <<_provider_status, last_outcome, seq_vars>>

\* the head of the loop of one request: the next provider is called and the request
\* is suspended, or the loop is over
ConcLoopStep ==
    /\ \E c \in CallIds :
          LET call == calls[c] IN
          /\ call.op = "generate_recipes"
          /\ call.pc = "loop"
          /\ calls' = [calls EXCEPT ![c] =
                 IF call.idx > Len(call.provider_order)
                 THEN [call EXCEPT !.pc = "raised", !.raised = Str_AllFailedMsg]
                 ELSE [call EXCEPT
                          !.pc = "await",
                          !.generation_info.providers_tried =
                              Append(@, value(call.provider_order[call.idx])),
                          !.own = Append(@, <<"start", call.provider_order[call.idx]>>)]]
    /\ UNCHANGED <<_provider_status, last_outcome, seq_vars>>

\* the provider call of one request returns and the request runs on to its return or
\* to the head of the loop
ConcProviderReturns ==
    /\ \E c \in CallIds :
          LET call == calls[c]
              provider == call.provider_order[call.idx]
          IN
          /\ call.op = "generate_recipes"
          /\ call.pc = "await"
          /\ \E out \in _generate_with_provider(provider, call.pantry_ingredients,
                                                call.is_premium) :
                /\ ~out.raises
                /\ IF out.recipes # <<>>
                   THEN LET info == [call.generation_info EXCEPT
                                        !.successful_provider = value(provider),
                                        !.fallback_used =
                                            FallbackUsed(provider, call.provider_order)]
                        IN
                        /\ _provider_status' =
                               _update_provider_status(_provider_status, provider, TRUE, None)
                        /\ last_outcome' =
                               Put(last_outcome, provider, [success |-> TRUE, error |-> None])
                        /\ calls' = [calls EXCEPT ![c] =
                               [call EXCEPT
                                   !.pc = "done",
                                   !.generation_info = info,
                                   !.result = [recipes |-> out.recipes,
                                               generation_info |-> info],
                                   !.own = Append(@, <<"ok", provider, out.recipes>>)]]
                   ELSE /\ calls' = [calls EXCEPT ![c] =
                               [call EXCEPT
                                   !.pc = "loop",
                                   !.idx = @ + 1,
                                   !.own = Append(@, <<"empty", provider>>)]]
                        /\ UNCHANGED <<_provider_status, last_outcome>>
    /\ UNCHANGED seq_vars

\* the provider call of one request raises and the request runs on to the head of
\* the loop
ConcProviderRaises ==
    /\ \E c \in CallIds :
          LET call == calls[c]
              provider == call.provider_order[call.idx]
          IN
          /\ call.op = "generate_recipes"
          /\ call.pc = "await"
          /\ \E out \in _generate_with_provider(provider, call.pantry_ingredients,
                                                call.is_premium) :
                /\ out.raises
                /\ _provider_status' =
                       _update_provider_status(_provider_status, provider, FALSE, out.error)
                /\ last_outcome' =
                       Put(last_outcome, provider, [success |-> FALSE, error |-> out.error])
                /\ calls' = [calls EXCEPT ![c] =
                       [call EXCEPT
                           !.pc = "loop",
                           !.idx = @ + 1,
                           !.generation_info.provider_statuses =
                               Put(@, value(provider),
                                   [error |-> out.error,
                                    quota_exceeded |-> QuotaExceeded(out.error)]),
                           !.own = Append(@, <<"fail", provider, out.error>>)]]
    /\ UNCHANGED seq_vars

\* a caller enters check_all_providers
ConcCallCheckAllProviders ==
    /\ \E c \in CallIds :
          /\ calls[c].pc = "idle"
          /\ calls' = [calls EXCEPT ![c] =
                 [NoCall EXCEPT !.op = "check_all_providers", !.pc = "loop", !.idx = 1]]
    /\ UNCHANGED <<_provider_status, last_outcome, seq_vars>>

\* _check_provider_status(provider) of one probe: the capability check passes
ConcProbePasses ==
    /\ \E c \in CallIds :
          LET call == calls[c] IN
          /\ call.op = "check_all_providers"
          /\ call.pc = "loop"
          /\ call.idx <= Len(Members)
          /\ _provider_status' =
                 Put(_provider_status, Members[call.idx],
                     AIProviderStatus(Members[call.idx], TRUE, TRUE, None))
          /\ last_outcome' =
                 Put(last_outcome, Members[call.idx], [success |-> TRUE, error |-> None])
          /\ calls' = [calls EXCEPT ![c] = [call EXCEPT !.idx = @ + 1]]
    /\ UNCHANGED seq_vars

\* _check_provider_status(provider) of one probe: the capability check of an external
\* provider raises
ConcProbeRaises ==
    /\ \E c \in CallIds, e \in ProbeErrors :
          LET call == calls[c] IN
          /\ call.op = "check_all_providers"
          /\ call.pc = "loop"
          /\ call.idx <= Len(Members)
          /\ Members[call.idx] \in External
          /\ _provider_status' =
                 Put(_provider_status, Members[call.idx],
                     AIProviderStatus(Members[call.idx], FALSE, FALSE, e))
          /\ last_outcome' =
                 Put(last_outcome, Members[call.idx], [success |-> FALSE, error |-> e])
          /\ calls' = [calls EXCEPT ![c] = [call EXCEPT !.idx = AfterProbeRaises(@)]]
    /\ UNCHANGED seq_vars

\* return MultiAIService.get_provider_statuses() of one probe
ConcCheckAllReturns ==
    /\ \E c \in CallIds :
          LET call == calls[c] IN
          /\ call.op = "check_all_providers"
          /\ call.pc = "loop"
          /\ call.idx > Len(Members)
          /\ calls' = [calls EXCEPT ![c] =
                 [call EXCEPT !.pc = "done",
                              !.result = get_provider_statuses(_provider_status)]]
    /\ UNCHANGED <<_provider_status, last_outcome, seq_vars>>

ConcNext ==
    \/ ConcCallGenerateRecipes
    \/ ConcLoopStep
    \/ ConcProviderReturns
    \/ ConcProviderRaises
    \/ ConcCallCheckAllProviders
    \/ ConcProbePasses
    \/ ConcProbeRaises
    \/ ConcCheckAllReturns

ConcSpec == ConcInit /\ [][ConcNext]_vars

\* the events of a call's own history that are of one kind
OwnEvents(own, kind) == SelectSeq(own, LAMBDA e : e[1] = kind)

\* the providers a call started, by value and in order
OwnTried(own) ==
    [i \in 1..Len(OwnEvents(own, "start")) |-> value(OwnEvents(own, "start")[i][2])]

\* the failure entries a call's own failed attempts give
OwnFailures(own) ==
    [v \in {value(e[2]) : e \in {OwnEvents(own, "fail")[i] :
                                    i \in 1..Len(OwnEvents(own, "fail"))}} |->
        LET e == CHOOSE x \in {OwnEvents(own, "fail")[i] :
                                  i \in 1..Len(OwnEvents(own, "fail"))} : value(x[2]) = v
        IN [error |-> e[3], quota_exceeded |-> QuotaExceeded(e[3])]]

\* what a request that returned must have returned, from its own history alone
OwnResult(call) ==
    LET ok == OwnEvents(call.own, "ok")[1] IN
    [recipes |-> ok[3],
     generation_info |->
         [providers_tried |-> OwnTried(call.own),
          successful_provider |-> value(ok[2]),
          fallback_used |-> ok[2] # call.provider_order[1],
          provider_statuses |-> OwnFailures(call.own)]]

\* the status record that the outcome of an attempt or probe gives
Agrees(record, provider, outcome) ==
    /\ record.provider = provider
    /\ record.available = outcome.success
    /\ record.error = outcome.error

\* C21: when generation requests and probes interleave at the suspension points of
\* their provider calls, the status record of each provider is that of the attempt
\* or probe on it that completed last, and what a request returns (recipes and
\* metadata) follows from that request's own attempts alone
C21_LastWriterWins ==
    /\ DOMAIN _provider_status = DOMAIN last_outcome
    /\ \A p \in DOMAIN last_outcome : Agrees(_provider_status[p], p, last_outcome[p])
    /\ \A c \in DOMAIN calls :
          (calls[c].op = "generate_recipes" /\ calls[c].pc = "done")
              => calls[c].result = OwnResult(calls[c])

\* one request returned recipes from OPENAI while the other, still under way, has
\* failed on OPENAI after that: the shared record tells of the failure
C21_Witness ==
    /\ calls # <<>>
    /\ calls[2].op = "generate_recipes" /\ calls[2].pc = "done"
    /\ calls[2].result.generation_info.successful_provider = Str_openai
    /\ calls[1].op = "generate_recipes" /\ calls[1].pc = "await"
    /\ Str_openai \in DOMAIN calls[1].generation_info.provider_statuses
    /\ "OPENAI" \in DOMAIN _provider_status
    /\ ~_provider_status["OPENAI"].available

-----------------------------------------------------------------------------
(* Who writes the status map.  The drivers, the probe and the three         *)
(* functions that only report are called one after the other.               *)

\* the sets of API keys the environment may hold
KeySets == SUBSET External

\* MultiAIService.get_available_providers: the values of the providers whose key is
\* set, in the order of the four tests, and "mock"
get_available_providers(keys) ==
    SelectSeq(<<Str_openai, Str_gemini, Str_huggingface, Str_cohere>>,
              LAMBDA v : AIProviderOf(v) \in keys)
        \o <<Str_mock>>

\* MultiAIService.get_provider_statuses() called on its own
CallGetProviderStatuses ==
    /\ pc = "idle"
    /\ op' = "get_provider_statuses"
    /\ pc' = "done"
    /\ result' = get_provider_statuses(_provider_status)
    /\ UNCHANGED <<_provider_status, pantry_ingredients, is_premium, provider_order, idx,
                   in_flight, generation_info, providers_tried, raised, attempts,
                   ord_vars, fn_vars, ext_vars>>

\* MultiAIService.get_available_providers() called on its own
CallGetAvailableProviders ==
    /\ pc = "idle"
    /\ op' = "get_available_providers"
    /\ pc' = "done"
    /\ \E keys \in KeySets : result' = [providers |-> get_available_providers(keys)]
    /\ UNCHANGED <<_provider_status, pantry_ingredients, is_premium, provider_order, idx,
                   in_flight, generation_info, providers_tried, raised, attempts,
                   ord_vars, fn_vars, ext_vars>>

\* MultiAIService._get_provider_order(preferred_provider) called on its own
CallGetProviderOrder ==
    /\ pc = "idle"
    /\ op' = "_get_provider_order"
    /\ pc' = "done"
    /\ \E preferred_provider \in PreferredTokens, setting \in DefaultSettings :
          result' = [order |->
                        _get_provider_order(preferred_provider, getenv_default(setting))]
    /\ UNCHANGED <<_provider_status, pantry_ingredients, is_premium, provider_order, idx,
                   in_flight, generation_info, providers_tried, raised, attempts,
                   ord_vars, fn_vars, ext_vars>>

FrameNext ==
    \/ CallGenerateRecipes
    \/ RecipesLoopStep
    \/ RecipesProviderReturns
    \/ RecipesProviderRaises
    \/ CallCheckAllProviders
    \/ ProbePasses
    \/ ProbeRaises
    \/ CheckAllReturns
    \/ CallGetProviderStatuses
    \/ CallGetAvailableProviders
    \/ CallGetProviderOrder
    \/ Return

FrameSpec == Init /\ [][FrameNext]_vars

\* the record of provider p is the same before and after the step
SameRecord(p) ==
    /\ (p \in DOMAIN _provider_status) = (p \in DOMAIN _provider_status')
    /\ p \in DOMAIN _provider_status => _provider_status'[p] = _provider_status[p]

ReportingOps == {"get_provider_statuses", "get_available_providers", "_get_provider_order"}

\* C22: the status map is written only by the generation driver when an attempt of
\* it has ended and by the probe; a step of a generation request changes no record
\* but that of the provider whose attempt ended, so the providers after the
\* successful one keep theirs; get_provider_statuses, get_available_providers and
\* _get_provider_order change neither the map nor the canonical fallback sequence
C22_Frame ==
    [][ /\ _provider_status' # _provider_status
            => \/ /\ op = "generate_recipes" /\ pc = "await"
                  /\ \A p \in AIProvider \ {provider_order[idx]} : SameRecord(p)
               \/ /\ op = "check_all_providers" /\ pc = "loop" /\ idx <= Len(Members)
                  /\ \A p \in AIProvider \ {Members[idx]} : SameRecord(p)
        /\ (op = "generate_recipes" /\ pc' = "done")
            => \A i \in (idx + 1)..Len(provider_order) : SameRecord(provider_order[i])
        /\ op' \in ReportingOps
            => /\ _provider_status' = _provider_status
               /\ fallback_order' = fallback_order
        /\ fallback_order' = _fallback_order
      ]_vars

\* a request has returned recipes from a provider that is not the last of its order,
\* and a provider after it in the order has a record that an earlier call left
C22_Witness ==
    /\ op = "generate_recipes" /\ pc = "done"
    /\ idx < Len(provider_order)
    /\ \E i \in (idx + 1)..Len(provider_order) :
          /\ provider_order[i] \in DOMAIN _provider_status
          /\ ~_provider_status[provider_order[i]].available

-----------------------------------------------------------------------------
(* middleware/security.py: SecurityMiddleware.dispatch.  Time is counted in *)
(* ticks of a clock that never runs backwards; the stretch from reading the *)
(* clock to the append has no await, so one request is one step.            *)

\* the calls_per_minute the middleware is built with, scaled down
calls_per_minute == 2

\* timedelta(minutes=1) in ticks
Minute == 3

\* the clock is followed up to this time
MaxTime == 5

\* request.client.host
ClientIPs == {"10.0.0.1", "10.0.0.2"}

\* rate_limit_storage[client_ip] of a defaultdict(list)
Stored(storage, client_ip) ==
    IF client_ip \in DOMAIN storage THEN storage[client_ip] ELSE <<>>

\* [timestamp for timestamp in ... if now - timestamp < timedelta(minutes=1)]
Recent(timestamps, now) == SelectSeq(timestamps, LAMBDA timestamp : now - timestamp < Minute)

\* a faulty variant: the test is > instead of >=
Limited_over(timestamps) == Len(timestamps) > calls_per_minute

\* len(rate_limit_storage[client_ip]) >= self.calls_per_minute
Limited(timestamps) == Len(timestamps) >= calls_per_minute

RateInit ==
    /\ NotRateIdle
    /\ rate_limit_storage = <<>>
    /\ clock = 0
    /\ forwarded = [ip \in ClientIPs |-> <<>>]
    /\ response = NoneDict

\* time passes
Tick ==
    /\ clock < MaxTime
    /\ clock' = clock + 1
    /\ UNCHANGED <<rate_limit_storage, forwarded, response, not_rate>>

\* SecurityMiddleware.dispatch for one request, up to the answer or to call_next
Dispatch ==
    /\ \E client_ip \in ClientIPs :
          LET now == clock
              kept == Recent(Stored(rate_limit_storage, client_ip), now)
          IN
          IF Limited(kept)
          THEN /\ rate_limit_storage' = Put(rate_limit_storage, client_ip, kept)
               /\ response' = [client_ip |-> client_ip, status_code |-> 429,
                               forwarded |-> FALSE]
               /\ UNCHANGED forwarded
          ELSE /\ rate_limit_storage' = Put(rate_limit_storage, client_ip, Append(kept, now))
               /\ forwarded' = [forwarded EXCEPT ![client_ip] = Append(@, now)]
               /\ response' = [client_ip |-> client_ip, status_code |-> 200,
                               forwarded |-> TRUE]
    /\ UNCHANGED <<clock, not_rate>>

RateNext ==
    \/ Tick
    \/ Dispatch

RateSpec == RateInit /\ [][RateNext]_vars

\* the requests of one client forwarded in the minute that starts at time a
ForwardedIn(client_ip, a) ==
    {i \in DOMAIN forwarded[client_ip] :
        a <= forwarded[client_ip][i] /\ forwarded[client_ip][i] < a + Minute}

\* the requests of one client forwarded less than a minute before now
Younger(client_ip, now) ==
    {i \in DOMAIN forwarded[client_ip] : now - forwarded[client_ip][i] < Minute}

\* C23: of one client IP at most calls_per_minute requests are forwarded in any
\* one-minute window and at most that many timestamps are stored; a request that
\* arrives when calls_per_minute forwarded requests of its IP are younger than one
\* minute is answered 429, is not forwarded and is not counted, any other request is
\* forwarded; the requests of other IPs change neither the count nor the answer
C23_RateLimit ==
    /\ [](/\ \A ip \in ClientIPs, a \in 0..MaxTime :
                Cardinality(ForwardedIn(ip, a)) <= calls_per_minute
          /\ \A ip \in DOMAIN rate_limit_storage :
                Len(rate_limit_storage[ip]) <= calls_per_minute)
    /\ [][clock' = clock =>
            LET ip == response'.client_ip IN
            /\ (Cardinality(Younger(ip, clock)) >= calls_per_minute)
                   = (response'.status_code = 429)
            /\ response'.status_code = 429 =>
                   /\ ~response'.forwarded
                   /\ forwarded' = forwarded
                   /\ Len(rate_limit_storage'[ip]) = calls_per_minute
            /\ response'.status_code # 429 =>
                   /\ response'.forwarded
                   /\ forwarded'[ip] = Append(forwarded[ip], clock)
            /\ \A other \in ClientIPs \ {ip} :
                   /\ forwarded'[other] = forwarded[other]
                   /\ Stored(rate_limit_storage', other) = Stored(rate_limit_storage, other)
       ]_vars

\* a client is answered 429 while the other client, in the same minute, is still
\* forwarded
C23_Witness ==
    /\ response # NoneDict
    /\ response.status_code = 429
    /\ \E other \in ClientIPs \ {response.client_ip} :
          /\ Len(forwarded[other]) = 1
          /\ forwarded[other][1] = clock
    /\ Cardinality(Younger(response.client_ip, clock)) = calls_per_minute

-----------------------------------------------------------------------------
(* services/cache_service.py: CacheService.  Its methods are synchronous:   *)
(* each call is one step.  created_at is stored and never read.             *)

\* the clock is followed up to this time
MaxUtc == 4

\* the longest ttl_seconds passed to set
MaxTtl == 2

CacheKeys == {"recipes:1", "recipes:2"}

CacheValues == {<<"x">>, <<"y">>}

\* a faulty variant: the comparison is the other way round
Expired_reversed(now, entry) == now < entry.expires_at

\* datetime.utcnow() > entry["expires_at"]
Expired(now, entry) == now > entry.expires_at

\* d without the keys in ks
Without(d, ks) == [k \in (DOMAIN d) \ ks |-> d[k]]

\* expired_keys of cleanup_expired
expired_keys(entries, now) == {key \in DOMAIN entries : Expired(now, entries[key])}

CacheInit ==
    /\ NotCacheIdle
    /\ cache = <<>>
    /\ utcnow = 0
    /\ written = <<>>
    /\ cache_returned = NoneDict

\* time passes
CacheTick ==
    /\ utcnow < MaxUtc
    /\ utcnow' = utcnow + 1
    /\ UNCHANGED <<cache, written, cache_returned, not_cache>>

\* CacheService.set(key, value, ttl_seconds)
Set ==
    /\ \E key \in CacheKeys, v \in CacheValues, ttl_seconds \in 0..MaxTtl :
          LET entry == [value |-> v, expires_at |-> utcnow + ttl_seconds] IN
          /\ cache' = Put(cache, key, entry)
          /\ written' = Put(written, key, entry)
          /\ cache_returned' = [op |-> "set", key |-> key, value |-> None, count |-> 0]
    /\ UNCHANGED <<utcnow, not_cache>>

\* CacheService.get(key)
Get ==
    /\ \E key \in CacheKeys :
          IF key \notin DOMAIN cache
          THEN /\ cache_returned' = [op |-> "get", key |-> key, value |-> None, count |-> 0]
               /\ UNCHANGED cache
          ELSE IF Expired(utcnow, cache[key])
          THEN /\ cache' = Without(cache, {key})
               /\ cache_returned' = [op |-> "get", key |-> key, value |-> None, count |-> 0]
          ELSE /\ cache_returned' = [op |-> "get", key |-> key,
                                     value |-> cache[key].value, count |-> 0]
               /\ UNCHANGED cache
    /\ UNCHANGED <<utcnow, written, not_cache>>

\* CacheService.delete(key)
Delete ==
    /\ \E key \in CacheKeys :
          /\ cache' = Without(cache, {key})
          /\ written' = Without(written, {key})
          /\ cache_returned' = [op |-> "delete", key |-> key, value |-> None, count |-> 0]
    /\ UNCHANGED <<utcnow, not_cache>>

\* CacheService.clear()
Clear ==
    /\ cache' = <<>>
    /\ written' = <<>>
    /\ cache_returned' = [op |-> "clear", key |-> "", value |-> None, count |-> 0]
    /\ UNCHANGED <<utcnow, not_cache>>

\* CacheService.cleanup_expired()
CleanupExpired ==
    /\ cache' = Without(cache, expired_keys(cache, utcnow))
    /\ cache_returned' = [op |-> "cleanup_expired", key |-> "", value |-> None,
                          count |-> Cardinality(expired_keys(cache, utcnow))]
    /\ UNCHANGED <<utcnow, written, not_cache>>

CacheNext ==
    \/ CacheTick
    \/ Set
    \/ Get
    \/ Delete
    \/ Clear
    \/ CleanupExpired

CacheSpec == CacheInit /\ [][CacheNext]_vars

\* the key was set, no delete or clear has touched it since, and the time is not
\* past the expiry of that set
Live(key) == key \in DOMAIN written /\ utcnow <= written[key].expires_at

\* the entries of the cache other than those of the keys in ks are as they were
OthersKept(ks) ==
    /\ (DOMAIN cache') \ ks = (DOMAIN cache) \ ks
    /\ \A k \in (DOMAIN cache) \ ks : cache'[k] = cache[k]

\* C24: get(k) returns the value of the last set of k while the time is not past its
\* expiry and no later delete or clear touched k, and otherwise returns None with no
\* entry of k left in the cache, so it never returns a value whose TTL has elapsed;
\* cleanup_expired removes exactly the entries past their expiry, returns how many
\* they were and leaves the others in place
C24_TTL ==
    [][utcnow' = utcnow =>
         /\ cache_returned'.op = "get" =>
                LET key == cache_returned'.key IN
                /\ IF Live(key)
                   THEN /\ cache_returned'.value = written[key].value
                        /\ key \in DOMAIN cache'
                   ELSE /\ cache_returned'.value = None
                        /\ key \notin DOMAIN cache'
                /\ OthersKept({key})
         /\ cache_returned'.op = "cleanup_expired" =>
                LET past == {k \in DOMAIN cache : utcnow > cache[k].expires_at} IN
                /\ DOMAIN cache' = (DOMAIN cache) \ past
                /\ OthersKept(past)
                /\ cache_returned'.count = Cardinality(past)
    ]_vars

\* get has just returned None for a key whose entry was past its expiry, and the
\* entry of the other key, not yet expired, is still there
C24_Witness ==
    /\ cache_returned # NoneDict
    /\ cache_returned.op = "get"
    /\ cache_returned.value = None
    /\ cache_returned.key \in DOMAIN written
    /\ utcnow > written[cache_returned.key].expires_at
    /\ cache_returned.key \notin DOMAIN cache
    /\ \E k \in DOMAIN cache : utcnow <= cache[k].expires_at

-----------------------------------------------------------------------------
(* models/user.py: UserService over db.users.  A stored user is a record of *)
(* the fields the premium and password flows read and write; a date is a    *)
(* tick of the clock and NoDate is the None of an Optional[datetime].       *)

NoDate == -1

\* the clock is followed up to this day
MaxDay == 3

UserIds == {"u1", "u2"}

\* the fields of models/schemas.py UserUpdate; the model ignores other keyword
\* arguments
UserUpdateFields == {"username", "health_goals", "pantry"}

\* {k: v for k, v in UserUpdate(**kwargs).dict().items() if v is not None}
UserUpdate(kwargs) == [f \in (DOMAIN kwargs) \cap UserUpdateFields |-> kwargs[f]]

\* the document after {"$set": update_data}
SetFields(doc, update_data) ==
    [f \in (DOMAIN doc) \cup (DOMAIN update_data) |->
        IF f \in DOMAIN update_data THEN update_data[f] ELSE doc[f]]

\* UserService.update_user: db.users after the call
update_user(stored, user_id, update_data) ==
    IF DOMAIN update_data # {} /\ user_id \in DOMAIN stored
    THEN [stored EXCEPT ![user_id] = SetFields(@, update_data)]
    ELSE stored

\* user.premium_expires_at and user.premium_expires_at < datetime.utcnow()
PremiumExpired(user, now) ==
    user.premium_expires_at # NoDate /\ user.premium_expires_at < now

\* the users a database may hold when the premium status is asked for
StoredUsers ==
    [phone_number : {"254700000001"}, is_premium : BOOLEAN,
     premium_expires_at : {NoDate} \cup 0..MaxDay, password : {"h0"}]

PremiumInit ==
    /\ NotDbIdle
    /\ utcnow = 0
    /\ users \in [UserIds -> StoredUsers]
    /\ payments = <<>>
    /\ password_resets = <<>>
    /\ handlers = <<>>
    /\ reply = NoneDict

\* a day passes
PremiumTick ==
    /\ utcnow < MaxDay
    /\ utcnow' = utcnow + 1
    /\ UNCHANGED <<db_vars, not_db>>

\* UserService.check_premium_status(user_id)
CheckPremiumStatus ==
    /\ \E user_id \in UserIds \cup {"u0"} :
          IF user_id \notin DOMAIN users \/ ~users[user_id].is_premium
          THEN /\ reply' = [route |-> "check_premium_status", user_id |-> user_id,
                            value |-> FALSE]
               /\ UNCHANGED users
          ELSE IF PremiumExpired(users[user_id], utcnow)
          THEN /\ users' = update_user(users, user_id, UserUpdate([is_premium |-> FALSE]))
               /\ reply' = [route |-> "check_premium_status", user_id |-> user_id,
                            value |-> FALSE]
          ELSE /\ reply' = [route |-> "check_premium_status", user_id |-> user_id,
                            value |-> TRUE]
               /\ UNCHANGED users
    /\ UNCHANGED <<utcnow, payments, password_resets, handlers, not_db>>

PremiumNext ==
    \/ PremiumTick
    \/ CheckPremiumStatus

PremiumSpec == PremiumInit /\ [][PremiumNext]_vars

\* C25: check_premium_status returns true only for a user whose is_premium flag is
\* set and whose premium_expires_at is absent or not in the past; when it finds the
\* premium expired it returns false and the stored is_premium is false afterwards
C25_PremiumStatus ==
    [][(utcnow' = utcnow /\ reply'.route = "check_premium_status") =>
          LET u == reply'.user_id IN
          /\ reply'.value =>
                 /\ u \in DOMAIN users
                 /\ users[u].is_premium
                 /\ \/ users[u].premium_expires_at = NoDate
                    \/ users[u].premium_expires_at >= utcnow
          /\ (/\ u \in DOMAIN users
              /\ users[u].is_premium
              /\ users[u].premium_expires_at # NoDate
              /\ users[u].premium_expires_at < utcnow) =>
                 /\ ~reply'.value
                 /\ ~users'[u].is_premium
    ]_vars

-----------------------------------------------------------------------------
(* routes/payments.py over db.payments, db.users and the IntaSend gateway  *)
(* (services/intasend_service.py).  One request is handled at a time.  A   *)
(* checkout id is a pair: who issued it ("chk" the gateway, "demo" or      *)
(* "demo_sub" or "demo_credits" the route itself) and a serial number that *)
(* stands for the random part.                                             *)

\* the payments collection is followed up to this many documents
MaxPayments == 2

\* timedelta(days=30), in ticks of the clock
PremiumPeriod == 2

Str_complete == <<"c", "o", "m", "p", "l", "e", "t", "e">>
Str_COMPLETE == <<"C", "O", "M", "P", "L", "E", "T", "E">>
Str_Complete == <<"C", "o", "m", "p", "l", "e", "t", "e">>
Str_PENDING == <<"P", "E", "N", "D", "I", "N", "G">>
Str_pending == <<"p", "e", "n", "d", "i", "n", "g">>
Str_FAILED == <<"F", "A", "I", "L", "E", "D">>
Str_PROCESSING == <<"P", "R", "O", "C", "E", "S", "S", "I", "N", "G">>

\* payment_status["state"] of the gateway's answers
GatewayStates == {Str_COMPLETE, Str_complete, Str_Complete, Str_PENDING, Str_FAILED,
                  Str_PROCESSING}

SUBSCRIPTION_PLANS == {"basic", "premium", "pro"}

CREDIT_PACKAGES == {"small", "medium", "large"}

\* the plan and package names of the requests
PlanNames == {"basic", "pro", "gold"}
PackageNames == {"small", "huge"}

\* phone numbers of the requests: of the two stored users and of nobody
Phones == {"254700000001", "254700000002", "254700000003"}

\* no checkout id: the field is missing from the document
NoCheckout == <<"none", 0>>

\* a faulty variant: premium is activated whatever state the gateway reports
IsComplete_any(state) == TRUE

\* payment_status["state"].lower() == "complete"
IsComplete(state) == lower(state) = Str_complete

\* `except Exception as e: raise HTTPException(status_code=500, detail=str(e))` around
\* the whole handler: HTTPException is an Exception, so the status code of an
\* HTTPException raised inside the try block is replaced
ExceptException(status_code) == 500

\* db.payments.find_one({"intasend_checkout_id": checkout_id}): its position, 0 if none
find_one(docs, checkout_id) ==
    IF \E i \in 1..Len(docs) : docs[i].intasend_checkout_id = checkout_id
    THEN CHOOSE i \in 1..Len(docs) :
            /\ docs[i].intasend_checkout_id = checkout_id
            /\ \A j \in 1..(i - 1) : docs[j].intasend_checkout_id # checkout_id
    ELSE 0

\* the unique index on payments.intasend_checkout_id (models/database.py) admits the
\* document; a missing field is indexed as null
Admits(docs, doc) ==
    \A i \in 1..Len(docs) : docs[i].intasend_checkout_id # doc.intasend_checkout_id

\* UserService.activate_premium(phone_number): db.users after the call
activate_premium(stored, phone_number, now) ==
    [u \in DOMAIN stored |->
        IF stored[u].phone_number = phone_number
        THEN [stored[u] EXCEPT !.is_premium = TRUE,
                               !.premium_expires_at = now + PremiumPeriod]
        ELSE stored[u]]

\* the user with the phone number, "" when there is none
get_user_by_phone(stored, phone_number) ==
    IF \E u \in DOMAIN stored : stored[u].phone_number = phone_number
    THEN CHOOSE u \in DOMAIN stored : stored[u].phone_number = phone_number
    ELSE ""

\* the answer to a request: check names the validation check that rejected it
\* ("none" when none did), state is what the gateway reported (None when it was not
\* asked or failed)
Reply(route, status_code, check, checkout_id, state) ==
    [route |-> route, status_code |-> status_code, check |-> check,
     checkout_id |-> checkout_id, state |-> state]

PaymentInit ==
    /\ NotDbIdle
    /\ utcnow = 0
    /\ users = [u \in UserIds |->
                   [phone_number |-> IF u = "u1" THEN "254700000001" ELSE "254700000002",
                    is_premium |-> FALSE, premium_expires_at |-> NoDate,
                    password |-> "h0"]]
    /\ payments = <<>>
    /\ password_resets = <<>>
    /\ handlers = <<>>
    /\ reply = NoneDict

\* a day passes
PaymentTick ==
    /\ utcnow < MaxDay
    /\ utcnow' = utcnow + 1
    /\ UNCHANGED <<db_vars, not_db>>

\* POST /initiate.  The user is looked up by phone; for an unknown phone UserCreate
\* is built without a password and fails validation.  insert_one is started and
\* `.inserted_id` is then read off the future it returned, which raises: the
\* request ends 500 whether or not the insert goes through
InitiatePayment ==
    /\ Len(payments) < MaxPayments
    /\ \E phone_number \in Phones, gateway_ok \in BOOLEAN, inserted \in BOOLEAN :
          LET user == get_user_by_phone(users, phone_number)
              checkout_id == <<IF gateway_ok THEN "chk" ELSE "demo", Len(payments) + 1>>
              doc == [user_id |-> user, phone_number |-> phone_number, type |-> "premium",
                      intasend_checkout_id |-> checkout_id, checkout_id |-> NoCheckout,
                      status |-> Str_pending]
          IN
          /\ payments' = IF user # "" /\ inserted /\ Admits(payments, doc)
                         THEN Append(payments, doc)
                         ELSE payments
          /\ reply' = Reply("initiate_payment", 500, "none", checkout_id, None)
    /\ UNCHANGED <<utcnow, users, password_resets, handlers, not_db>>

\* POST /credits/purchase
PurchaseCredits ==
    /\ Len(payments) < MaxPayments
    /\ \E package \in PackageNames, phone_number \in Phones, current_user \in UserIds,
          gateway_ok \in BOOLEAN :
          LET checkout_id == <<IF gateway_ok THEN "chk" ELSE "demo_credits",
                               Len(payments) + 1>>
              doc == [user_id |-> current_user, phone_number |-> phone_number,
                      type |-> "credits", intasend_checkout_id |-> NoCheckout,
                      checkout_id |-> checkout_id, status |-> Str_pending]
          IN
          IF package \notin CREDIT_PACKAGES
          THEN /\ reply' = Reply("purchase_credits", ExceptException(400), "package",
                                 NoCheckout, None)
               /\ UNCHANGED payments
          ELSE IF ~Admits(payments, doc)
          THEN /\ reply' = Reply("purchase_credits", 500, "none", checkout_id, None)
               /\ UNCHANGED payments
          ELSE /\ reply' = Reply("purchase_credits", 200, "none", checkout_id, None)
               /\ payments' = Append(payments, doc)
    /\ UNCHANGED <<utcnow, users, password_resets, handlers, not_db>>

\* POST /subscription/purchase
PurchaseSubscription ==
    /\ Len(payments) < MaxPayments
    /\ \E plan \in PlanNames, phone_number \in Phones, current_user \in UserIds,
          gateway_ok \in BOOLEAN :
          LET checkout_id == <<IF gateway_ok THEN "chk" ELSE "demo_sub", Len(payments) + 1>>
              doc == [user_id |-> current_user, phone_number |-> phone_number,
                      type |-> "subscription", intasend_checkout_id |-> checkout_id,
                      checkout_id |-> NoCheckout, status |-> Str_pending]
          IN
          IF plan \notin SUBSCRIPTION_PLANS
          THEN /\ reply' = Reply("purchase_subscription", ExceptException(400), "plan",
                                 NoCheckout, None)
               /\ UNCHANGED payments
          ELSE /\ reply' = Reply("purchase_subscription", 200, "none", checkout_id, None)
               /\ payments' = Append(payments, doc)
    /\ UNCHANGED <<utcnow, users, password_resets, handlers, not_db>>

\* the checkout ids a status request may name: the stored ones and one never issued
AskedCheckouts ==
    {payments[i].intasend_checkout_id : i \in 1..Len(payments)}
        \cup {payments[i].checkout_id : i \in 1..Len(payments)}
        \cup {<<"chk", 0>>}

\* the answers of IntaSendService.check_payment_status: the gateway reports a state
\* of a checkout it issued and fails (a status other than 200) for any other id
GatewayAnswers(checkout_id) ==
    IF checkout_id[1] = "chk" /\ checkout_id[2] > 0
    THEN GatewayStates \cup {None}
    ELSE {None}

\* GET /status/{checkout_id}
CheckPaymentStatus ==
    /\ \E checkout_id \in AskedCheckouts \ {NoCheckout} :
          LET at == find_one(payments, checkout_id) IN
          IF at = 0
          THEN /\ reply' = Reply("check_payment_status", ExceptException(404), "checkout",
                                 checkout_id, None)
               /\ UNCHANGED <<payments, users>>
          ELSE \E state \in GatewayAnswers(checkout_id) :
                  IF state = None
                  THEN /\ reply' = Reply("check_payment_status", 500, "none",
                                         checkout_id, None)
                       /\ UNCHANGED <<payments, users>>
                  ELSE /\ payments' = [payments EXCEPT ![at].status = lower(state)]
                       /\ users' = IF IsComplete(state)
                                   THEN activate_premium(users, payments[at].phone_number,
                                                         utcnow)
                                   ELSE users
                       /\ reply' = Reply("check_payment_status", 200, "none",
                                         checkout_id, state)
    /\ UNCHANGED <<utcnow, password_resets, handlers, not_db>>

\* GET /history/{user_id}
GetPaymentHistory ==
    /\ \E user_id \in UserIds, current_user \in UserIds :
          reply' = IF current_user # user_id
                   THEN Reply("get_payment_history", ExceptException(403), "owner",
                              NoCheckout, None)
                   ELSE Reply("get_payment_history", 200, "none", NoCheckout, None)
    /\ UNCHANGED <<utcnow, users, payments, password_resets, handlers, not_db>>

PaymentNext ==
    \/ PaymentTick
    \/ InitiatePayment
    \/ PurchaseCredits
    \/ PurchaseSubscription
    \/ CheckPaymentStatus
    \/ GetPaymentHistory

PaymentSpec == PaymentInit /\ [][PaymentNext]_vars

\* the premium fields of some stored user differ before and after the step
PremiumChanged ==
    \E u \in DOMAIN users :
        \/ users'[u].is_premium # users[u].is_premium
        \/ users'[u].premium_expires_at # users[u].premium_expires_at

\* the checkout is one the routes made up themselves (demo mode)
IsDemo(checkout_id) == checkout_id[1] \in {"demo", "demo_sub", "demo_credits"}

StoredStatus(checkout_id) == payments[find_one(payments, checkout_id)].status

\* C27: one completed payment grants one subscription period: a status check of a
\* checkout that an earlier status check reported completed leaves the
\* premium_expires_at of every user unchanged
C27_OnePeriod ==
    [][(/\ utcnow' = utcnow
        /\ reply'.route = "check_payment_status"
        /\ find_one(payments, reply'.checkout_id) # 0
        /\ StoredStatus(reply'.checkout_id) = Str_complete) =>
           \A u \in DOMAIN users :
               users'[u].premium_expires_at = users[u].premium_expires_at
    ]_vars

\* C29: a request that a validation check of the payments routes rejects is answered
\* with the status code of that check, 400 for an unknown package or plan, 404 for a
\* checkout id without a stored payment, 403 for the history of another user, never
\* 500, and writes no payment record
C29_OwnStatus ==
    /\ [](reply # NoneDict =>
            /\ reply.check \in {"package", "plan"} => reply.status_code = 400
            /\ reply.check = "checkout" => reply.status_code = 404
            /\ reply.check = "owner" => reply.status_code = 403)
    /\ [][(utcnow' = utcnow /\ reply'.check # "none") => payments' = payments]_vars

-----------------------------------------------------------------------------
(* routes/auth.py: the password reset.  confirm_password_reset awaits four *)
(* database calls one after the other; each call is atomic in the database *)
(* and other requests run between two of them.  A stored reset document    *)
(* carries, as history, how many times a confirm that found it has written *)
(* the password.                                                           *)

\* confirm_password_reset requests under way at the same time
NumHandlers == 2
HandlerIds == 1..NumHandlers

\* db.password_resets is followed up to this many documents
MaxResets == 2

\* timedelta(minutes=15), in ticks of the clock
ResetMinutes == 2

\* the clock is followed up to this time
MaxMinute == 3

\* what generate_reset_code may give
ResetCodes == {"123456", "654321"}

NewPasswords == {"first", "second"}

\* get_password_hash(password): a hash that tells of its password
get_password_hash(password) == <<"hash", password>>

\* a confirm handler that is not running
NoHandler ==
    [pc |-> "idle", phone_number |-> "", reset_code |-> "", new_password |-> "",
     reset_record |-> 0]

\* the documents that match {"phone_number", "reset_code", "used": False,
\* "expires_at": {"$gt": now}}
ValidResets(docs, phone_number, reset_code, now) ==
    {i \in 1..Len(docs) :
        /\ docs[i].phone_number = phone_number
        /\ docs[i].reset_code = reset_code
        /\ ~docs[i].used
        /\ docs[i].expires_at > now}

ResetInit ==
    /\ NotDbIdle
    /\ utcnow = 0
    /\ users = [u \in {"u1"} |->
                   [phone_number |-> "254700000001", is_premium |-> FALSE,
                    premium_expires_at |-> NoDate, password |-> get_password_hash("old")]]
    /\ payments = <<>>
    /\ password_resets = <<>>
    /\ handlers = [h \in HandlerIds |-> NoHandler]
    /\ reply = NoneDict

\* a minute passes
ResetTick ==
    /\ utcnow < MaxMinute
    /\ utcnow' = utcnow + 1
    /\ UNCHANGED <<db_vars, not_db>>

\* POST /password-reset
RequestPasswordReset ==
    /\ Len(password_resets) < MaxResets
    /\ \E phone_number \in {"254700000001", "254700000003"}, reset_code \in ResetCodes :
          /\ password_resets' =
                 IF get_user_by_phone(users, phone_number) = ""
                 THEN password_resets
                 ELSE Append(password_resets,
                             [phone_number |-> phone_number, reset_code |-> reset_code,
                              expires_at |-> utcnow + ResetMinutes, used |-> FALSE,
                              changes |-> 0])
          /\ reply' = [route |-> "request_password_reset", status_code |-> 200,
                       handler |-> 0]
    /\ UNCHANGED <<utcnow, users, payments, handlers, not_db>>

\* POST /password-reset/confirm, up to the answer of find_one: 400 when no document
\* matches
ConfirmFind ==
    /\ \E h \in HandlerIds, phone_number \in {"254700000001"},
          reset_code \in ResetCodes, new_password \in NewPasswords :
          LET valid == ValidResets(password_resets, phone_number, reset_code, utcnow) IN
          /\ handlers[h].pc = "idle"
          /\ IF valid = {}
             THEN /\ reply' = [route |-> "confirm_password_reset", status_code |-> 400,
                               handler |-> h]
                  /\ UNCHANGED handlers
             ELSE /\ handlers' = [handlers EXCEPT ![h] =
                         [pc |-> "found", phone_number |-> phone_number,
                          reset_code |-> reset_code, new_password |-> new_password,
                          reset_record |-> CHOOSE i \in valid : \A j \in valid : i <= j]]
                  /\ UNCHANGED reply
    /\ UNCHANGED <<utcnow, users, payments, password_resets, not_db>>

\* get_user_by_phone and update_user_password of one confirm
ConfirmUpdatePassword ==
    /\ \E h \in HandlerIds :
          LET user == get_user_by_phone(users, handlers[h].phone_number) IN
          /\ handlers[h].pc = "found"
          /\ users' = [users EXCEPT ![user].password =
                          get_password_hash(handlers[h].new_password)]
          /\ password_resets' =
                 [password_resets EXCEPT ![handlers[h].reset_record].changes = @ + 1]
          /\ handlers' = [handlers EXCEPT ![h].pc = "updated"]
    /\ UNCHANGED <<utcnow, payments, reply, not_db>>

\* the reset document is marked used and the confirm answers
ConfirmMarkUsed ==
    /\ \E h \in HandlerIds :
          /\ handlers[h].pc = "updated"
          /\ password_resets' =
                 [password_resets EXCEPT ![handlers[h].reset_record].used = TRUE]
          /\ handlers' = [handlers EXCEPT ![h] = NoHandler]
          /\ reply' = [route |-> "confirm_password_reset", status_code |-> 200,
                       handler |-> h]
    /\ UNCHANGED <<utcnow, users, payments, not_db>>

ResetNext ==
    \/ ResetTick
    \/ RequestPasswordReset
    \/ ConfirmFind
    \/ ConfirmUpdatePassword
    \/ ConfirmMarkUsed

ResetSpec == ResetInit /\ [][ResetNext]_vars

\* C28: a reset code changes the password at most once, also when two confirms with
\* it run at the same time, and a confirm is let past the lookup only with a code
\* that is neither used nor expired
C28_CodeOnce ==
    /\ [](\A i \in 1..Len(password_resets) : password_resets[i].changes <= 1)
    /\ [][\A h \in HandlerIds :
             (handlers[h].pc = "idle" /\ handlers'[h].pc = "found") =>
                 /\ ~password_resets[handlers'[h].reset_record].used
                 /\ password_resets[handlers'[h].reset_record].expires_at > utcnow
       ]_vars

-----------------------------------------------------------------------------
(* models/schemas.py: RecipeGenerationRequest.validate_ingredients, applied *)
(* alone to lists of ingredient names.  A name is a sequence of characters. *)

\* the most ingredients a request may list
MaxIngredientCount == 20

\* the longest sanitised name that is kept
MaxCleanLength == 50

\* names are drawn up to this length, and lists of different names up to this many
MaxChars == 2
MaxNames == 2

Digits == <<"0", "1", "2", "3", "4", "5", "6", "7", "8", "9">>

\* the characters [a-zA-Z0-9\s-] that re.sub leaves in place
KeptChars ==
    {Upper[i] : i \in 1..Len(Upper)} \cup {Lower[i] : i \in 1..Len(Lower)}
        \cup {Digits[i] : i \in 1..Len(Digits)} \cup {" ", "-"}

\* the characters the names are made of
NameChars == {"a", "7", " ", "-", "!"}

\* re.sub(r'[^a-zA-Z0-9\s-]', '', ingredient.strip())
Clean(ingredient) == SelectSeq(strip_text(ingredient), LAMBDA c : c \in KeptChars)

\* len(clean) > 0 and len(clean) <= 50
Keep(clean) == Len(clean) > 0 /\ Len(clean) <= MaxCleanLength

\* the names cleaned, those that Keep rejects dropped
Sanitized(v) ==
    SelectSeq([i \in 1..Len(v) |-> Clean(v[i])], LAMBDA clean : Keep(clean))

\* RecipeGenerationRequest.validate_ingredients: raises ValueError or returns the
\* sanitised list
validate_ingredients(v) ==
    IF v = <<>> THEN [raises |-> TRUE, ingredients |-> <<>>]
    ELSE IF Len(v) > MaxIngredientCount THEN [raises |-> TRUE, ingredients |-> <<>>]
    ELSE [raises |-> FALSE, ingredients |-> Sanitized(v)]

\* names of up to MaxChars characters and one name of MaxCleanLength + 1 letters
IngredientTexts ==
    UNION {[1..n -> NameChars] : n \in 0..MaxChars}
        \cup {[i \in 1..(MaxCleanLength + 1) |-> "a"]}

\* short lists of any names, and lists of one name repeated up to and beyond the
\* most allowed
IngredientLists ==
    UNION {[1..n -> IngredientTexts] : n \in 0..MaxNames}
        \cup {[i \in 1..n |-> x] :
                 n \in (MaxIngredientCount - 1)..(MaxIngredientCount + 1),
                 x \in {<<"a">>, <<"!">>}}

ValidateInit ==
    /\ _provider_status = <<>>
    /\ op = "none"
    /\ pc = "idle"
    /\ pantry_ingredients = <<>>
    /\ is_premium = FALSE
    /\ provider_order = <<>>
    /\ idx = 0
    /\ in_flight = {}
    /\ generation_info = NoneDict
    /\ providers_tried = <<>>
    /\ result = NoResult
    /\ raised = None
    /\ attempts = <<>>
    /\ o_preferred = None
    /\ o_default = None
    /\ o_order = None
    /\ \E v \in IngredientLists : args = [ingredients |-> v]
    /\ returned = NoneDict
    /\ ExtIdle

\* RecipeGenerationRequest(ingredients=v): the validator runs
Validate ==
    /\ returned = NoneDict
    /\ returned' = validate_ingredients(args.ingredients)
    /\ UNCHANGED <<svc_vars, ord_vars, args, ext_vars>>

ValidateNext == Validate

ValidateSpec == ValidateInit /\ [][ValidateNext]_vars

\* C30: a RecipeGenerationRequest that passes validation carries at least one and at
\* most twenty ingredients after sanitisation, so that generate_recipes is never
\* handed an empty list
C30_OneToTwenty ==
    (returned # NoneDict /\ ~returned.raises) =>
        /\ Len(returned.ingredients) >= 1
        /\ Len(returned.ingredients) <= MaxIngredientCount
        /\ ~Not(returned.ingredients)

====
